---- MODULE Spec2Model ----
(***************************************************************************)
(* A model of the event logger of the Cognitive Bridge activity monitor:   *)
(* core/monitoring/interaction_tracker.py, class InteractionTracker.       *)
(*                                                                         *)
(* The tracker keeps an in-memory buffer (self.events), writes every       *)
(* accepted event at once to self.log_file, writes the whole buffer again  *)
(* to the session file on a flush, and runs a monitor thread that flushes  *)
(* on a timer and counts its own errors.                                   *)
(*                                                                         *)
(* Time is counted in whole seconds.  A sleeping monitor thread wakes      *)
(* exactly when its sleep is over (time does not pass a due wake-up).      *)
(* Every operation of the tracker is one atomic step: this is the          *)
(* single-threaded reading of the code.                                    *)
(***************************************************************************)
EXTENDS Integers, Sequences, FiniteSets, TLC

(***************************************************************************)
(* Bounds of the model.  A behaviour is explored within one of a few sets  *)
(* of limits (the variable limits, fixed at the start): all kinds of       *)
(* input over a few events, a burst of events of one kind, or a few events *)
(* over the time the monitor loop needs to flush on its timer and to give  *)
(* up after repeated errors.                                               *)
(***************************************************************************)
\* _log_event calls accepted (made while the tracker runs) in one behaviour
MaxEvents == 2
BurstMaxEvents == 3
TimedMaxEvents == 1
\* failing flushes that leave lines in the file, in one behaviour
MaxPartialFlushes == 1
\* monitor threads created in one behaviour
MaxThreads == 2
\* the clock stops here
MaxTime == 1
TimedMaxTime == 32
\* The buffer length at which _log_event flushes.  The source has 100
\* (interaction_tracker.py:134); the model runs with a small threshold, and
\* no claim below depends on its value.
FLUSH_THRESHOLD == 2

(***************************************************************************)
(* Constants of the program.                                               *)
(***************************************************************************)
FLUSH_INTERVAL == 30
LOOP_SLEEP == 1
ERROR_SLEEP == 5
MAX_ERRORS == 3

VARIABLES
    is_running,        \* self.is_running
    events,            \* self.events, the in-memory buffer
    log_file,          \* self.log_file: the timestamp in its name
    current_session,   \* self.current_session: the timestamp of the session
    disk,              \* the files of log_dir: timestamp -> sequence of lines
    hooked,            \* the keyboard and mouse hooks are installed
    last_flush_time,   \* self._last_flush_time
    error_count,       \* self._error_count
    threads,           \* the monitor threads created so far, in order
    now,               \* time.time(), in seconds
    crashed,           \* the process has died
    accepted,          \* history: one record per _log_event call made while running
    flushedUpTo,       \* history: Len(accepted) at the last flush that cleared the buffer
    partial,           \* history: ids of events a failed flush wrote before failing
    errRun,            \* history: the monitor iterations that raised, in a row
    partialFlushes,    \* history: the failing flushes that left lines in the file
    loopRaised,        \* history: a monitor iteration has raised since start()
    limits,            \* the limits this behaviour is explored within
    last               \* history: the operation that made the last step

\* The analysis side: the metric extractors of CognitiveInteractionTracker,
\* the pattern and resonance analyzers, and the CognitiveFieldSystem loop.
VARIABLES
    given,             \* the argument of the analysis calls: an event list, a
                       \* metrics dict; for the field system, the logged events
    call,              \* the last analysis call: its function, result, exception
    cognitive_metrics, \* CognitiveInteractionTracker.cognitive_metrics
    patterns,          \* CognitiveFieldSystem.patterns: scale -> list of patterns
    resonances,        \* CognitiveFieldSystem.resonances
    resonance_history  \* CognitiveFieldAnalyzer.resonance_history

analysis == <<given, call, cognitive_metrics, patterns, resonances,
              resonance_history>>

\* The threads: a BaseTracker of core/monitoring/tracker_manager.py, and a
\* _flush_events call of the InteractionTracker taken step by step.
VARIABLES
    running,           \* BaseTracker.running
    queue,             \* BaseTracker.queue
    thread,            \* where the BaseTracker thread is
    activity_count,    \* InteractionTracker.activity_count (tracker_manager.py)
    processed,         \* history: the events handed to process_event, in order
    stopped,           \* history: stop() has set running to false
    flusher            \* the _flush_events call in progress: its events_to_write

workers == <<running, queue, thread, activity_count, processed, stopped, flusher>>

vars == <<is_running, events, log_file, current_session, disk, hooked,
          last_flush_time, error_count, threads, now, crashed,
          accepted, flushedUpTo, partial, errRun, partialFlushes,
          loopRaised, limits, last, analysis, workers>>

\* the state of the tracker object and of its files
prog == <<is_running, events, log_file, current_session, disk, hooked,
          last_flush_time, error_count, threads>>

Min(a, b) == IF a < b THEN a ELSE b

(***************************************************************************)
(* Python dicts are functions from keys to values; values are tokens.      *)
(***************************************************************************)
EmptyDict == [k \in {} |-> "x"]

\* a slip: the context is left out of the event
DictMerge_drops_context(base, context) == base

\* {**base, **context}: the keys of context win
DictMerge(base, context) ==
    [k \in (DOMAIN base) \cup (DOMAIN context) |->
        IF k \in DOMAIN context THEN context[k] ELSE base[k]]

\* json.dumps on a value: None becomes null, a tuple becomes a list
JsonValue(v) ==
    CASE v = "None" -> "null"
      [] v = "(100, 100)" -> "[100, 100]"
      [] OTHER -> v

\* json.dumps(event) + '\n': one line of the file
JsonLine(ev) == [id |-> ev.id, json |-> [k \in DOMAIN ev.data |-> JsonValue(ev.data[k])]]

Lines(evs) == [i \in 1..Len(evs) |-> JsonLine(evs[i])]

\* interaction_log_<timestamp>.jsonl
SetupStamps == {0}
SessionStamps == {0, 1}

\* the tracker object as one value
Self ==
    [is_running |-> is_running, events |-> events, disk |-> disk, hooked |-> hooked,
     last_flush_time |-> last_flush_time, error_count |-> error_count,
     threads |-> threads]

(***************************************************************************)
(* _flush_events.  ok: the file write succeeds; k: the lines a failing     *)
(* write had put in the file before it failed.                             *)
(***************************************************************************)
\* a slip: the buffer is cleared whether or not the write succeeded
flush_events_clears_on_failure(s, ok, k) ==
    IF s.events = <<>>
    THEN [self |-> s, flush |-> "empty", wrote |-> {}]
    ELSE IF ok
    THEN [self |-> [s EXCEPT !.disk[current_session] = @ \o Lines(s.events),
                             !.events = <<>>],
          flush |-> "ok", wrote |-> {}]
    ELSE LET n == Min(k, Len(s.events) - 1)
         IN [self |-> [s EXCEPT !.disk[current_session] =
                                     @ \o Lines(SubSeq(s.events, 1, n)),
                                !.events = <<>>],
             flush |-> "fail",
             wrote |-> {s.events[i].id : i \in 1..n}]

\* a slip: a failed flush keeps only the newest events, as a capped buffer would
flush_events_truncates_on_failure(s, ok, k) ==
    IF s.events = <<>>
    THEN [self |-> s, flush |-> "empty", wrote |-> {}]
    ELSE IF ok
    THEN [self |-> [s EXCEPT !.disk[current_session] = @ \o Lines(s.events),
                             !.events = <<>>],
          flush |-> "ok", wrote |-> {}]
    ELSE LET n == Min(k, Len(s.events) - 1)
         IN [self |-> [s EXCEPT !.disk[current_session] =
                                     @ \o Lines(SubSeq(s.events, 1, n)),
                                !.events = IF Len(@) > FLUSH_THRESHOLD
                                           THEN Tail(@) ELSE @],
             flush |-> "fail",
             wrote |-> {s.events[i].id : i \in 1..n}]

flush_events(s, ok, k) ==
    IF s.events = <<>>
    THEN [self |-> s, flush |-> "empty", wrote |-> {}]
    ELSE IF ok
    THEN [self |-> [s EXCEPT !.disk[current_session] = @ \o Lines(s.events),
                             !.events = <<>>],
          flush |-> "ok", wrote |-> {}]
    ELSE LET n == Min(k, Len(s.events) - 1)
         IN [self |-> [s EXCEPT !.disk[current_session] =
                                     @ \o Lines(SubSeq(s.events, 1, n))],
             flush |-> "fail",
             wrote |-> {s.events[i].id : i \in 1..n}]

(***************************************************************************)
(* _log_event(event_type, context).  id names the call; p: building or     *)
(* serialising the event raises (the window or system-metrics lookup, or   *)
(* json.dumps); w: the immediate write to log_file succeeds; fok, k: the   *)
(* outcome of the flush the call may make.                                 *)
(***************************************************************************)
\* what a _log_event call returns to the model: the tracker, and what happened
LogResult(s, accepted_, proc_, write_, f) ==
    [self |-> s, accepted |-> accepted_, raised |-> FALSE, proc |-> proc_,
     write |-> write_, flush |-> f.flush, wrote |-> f.wrote]

NoFlush == [flush |-> "none", wrote |-> {}]

\* the event a call builds: line 112-118, and line 140-145 when building it raised
EventData(event_type, context, id) ==
    [id |-> id,
     data |-> DictMerge([timestamp |-> "ts", type |-> event_type,
                         window |-> "win", system_metrics |-> "sys"], context)]

ErrorData(event_type, context, id) ==
    [id |-> id,
     data |-> DictMerge([timestamp |-> "ts", type |-> event_type, error |-> "exc"],
                        context)]

\* a slip: a failed immediate write drops the event
log_event_drops_on_write_failure(s, event_type, context, id, p, w, fok, k) ==
    IF ~s.is_running
    THEN LogResult(s, FALSE, FALSE, "none", NoFlush)
    ELSE IF p
    THEN IF DOMAIN context # {}
         THEN LogResult([s EXCEPT !.events = Append(@, ErrorData(event_type, context, id))],
                        TRUE, TRUE, "none", NoFlush)
         ELSE LogResult(s, TRUE, TRUE, "none", NoFlush)
    ELSE LET event_data == EventData(event_type, context, id)
         IN IF ~w
            THEN LogResult(s, TRUE, FALSE, "fail", NoFlush)
            ELSE LET s1 == [s EXCEPT !.disk[log_file] = Append(@, JsonLine(event_data)),
                                     !.events = Append(@, event_data)]
                 IN IF Len(s1.events) >= FLUSH_THRESHOLD
                    THEN LET f == flush_events(s1, fok, k)
                         IN LogResult(f.self, TRUE, FALSE, "ok", f)
                    ELSE LogResult(s1, TRUE, FALSE, "ok", NoFlush)

\* a slip: the flush waits until the buffer is over the threshold
log_event_flushes_over_threshold(s, event_type, context, id, p, w, fok, k) ==
    IF ~s.is_running
    THEN LogResult(s, FALSE, FALSE, "none", NoFlush)
    ELSE IF p
    THEN IF DOMAIN context # {}
         THEN LogResult([s EXCEPT !.events = Append(@, ErrorData(event_type, context, id))],
                        TRUE, TRUE, "none", NoFlush)
         ELSE LogResult(s, TRUE, TRUE, "none", NoFlush)
    ELSE LET event_data == EventData(event_type, context, id)
         IN IF ~w
            THEN LogResult([s EXCEPT !.events = Append(@, event_data)],
                           TRUE, FALSE, "fail", NoFlush)
            ELSE LET s1 == [s EXCEPT !.disk[log_file] = Append(@, JsonLine(event_data)),
                                     !.events = Append(@, event_data)]
                 IN IF Len(s1.events) > FLUSH_THRESHOLD
                    THEN LET f == flush_events(s1, fok, k)
                         IN LogResult(f.self, TRUE, FALSE, "ok", f)
                    ELSE LogResult(s1, TRUE, FALSE, "ok", NoFlush)

\* a slip: the event is only buffered, the immediate write is left out
log_event_buffers_only(s, event_type, context, id, p, w, fok, k) ==
    IF ~s.is_running
    THEN LogResult(s, FALSE, FALSE, "none", NoFlush)
    ELSE IF p
    THEN IF DOMAIN context # {}
         THEN LogResult([s EXCEPT !.events = Append(@, ErrorData(event_type, context, id))],
                        TRUE, TRUE, "none", NoFlush)
         ELSE LogResult(s, TRUE, TRUE, "none", NoFlush)
    ELSE LET event_data == EventData(event_type, context, id)
         IN IF ~w
            THEN LogResult([s EXCEPT !.events = Append(@, event_data)],
                           TRUE, FALSE, "fail", NoFlush)
            ELSE LET s1 == [s EXCEPT !.events = Append(@, event_data)]
                 IN IF Len(s1.events) >= FLUSH_THRESHOLD
                    THEN LET f == flush_events(s1, fok, k)
                         IN LogResult(f.self, TRUE, FALSE, "ok", f)
                    ELSE LogResult(s1, TRUE, FALSE, "ok", NoFlush)

\* a slip: _log_event does not test is_running
log_event_ignores_is_running(s, event_type, context, id, p, w, fok, k) ==
    LET event_data == EventData(event_type, context, id)
    IN IF ~w
       THEN LogResult([s EXCEPT !.events = Append(@, event_data)],
                      TRUE, FALSE, "fail", NoFlush)
       ELSE LogResult([s EXCEPT !.disk[log_file] = Append(@, JsonLine(event_data)),
                                !.events = Append(@, event_data)],
                      TRUE, FALSE, "ok", NoFlush)

\* a slip: an event whose immediate write succeeded is not buffered
log_event_writes_or_buffers(s, event_type, context, id, p, w, fok, k) ==
    IF ~s.is_running
    THEN LogResult(s, FALSE, FALSE, "none", NoFlush)
    ELSE IF p
    THEN IF DOMAIN context # {}
         THEN LogResult([s EXCEPT !.events = Append(@, ErrorData(event_type, context, id))],
                        TRUE, TRUE, "none", NoFlush)
         ELSE LogResult(s, TRUE, TRUE, "none", NoFlush)
    ELSE LET event_data == EventData(event_type, context, id)
         IN IF ~w
            THEN LogResult([s EXCEPT !.events = Append(@, event_data)],
                           TRUE, FALSE, "fail", NoFlush)
            ELSE LogResult([s EXCEPT !.disk[log_file] = Append(@, JsonLine(event_data))],
                           TRUE, FALSE, "ok", NoFlush)

log_event(s, event_type, context, id, p, w, fok, k) ==
    IF ~s.is_running
    THEN LogResult(s, FALSE, FALSE, "none", NoFlush)
    ELSE IF p
    THEN IF DOMAIN context # {}
         THEN LogResult([s EXCEPT !.events = Append(@, ErrorData(event_type, context, id))],
                        TRUE, TRUE, "none", NoFlush)
         ELSE LogResult(s, TRUE, TRUE, "none", NoFlush)
    ELSE LET event_data == EventData(event_type, context, id)
         IN IF ~w
            THEN LogResult([s EXCEPT !.events = Append(@, event_data)],
                           TRUE, FALSE, "fail", NoFlush)
            ELSE LET s1 == [s EXCEPT !.disk[log_file] = Append(@, JsonLine(event_data)),
                                     !.events = Append(@, event_data)]
                 IN IF Len(s1.events) >= FLUSH_THRESHOLD
                    THEN LET f == flush_events(s1, fok, k)
                         IN LogResult(f.self, TRUE, FALSE, "ok", f)
                    ELSE LogResult(s1, TRUE, FALSE, "ok", NoFlush)

\* a slip: start() does not test is_running, and launches a thread each time
start_launches_again(s, t, thread_ok) ==
    IF thread_ok
    THEN [self |-> [s EXCEPT !.is_running = TRUE,
                             !.last_flush_time = t,
                             !.error_count = 0,
                             !.threads = Append(@, [pc |-> "run", wake |-> t])],
          raised |-> FALSE]
    ELSE [self |-> [s EXCEPT !.is_running = FALSE,
                             !.last_flush_time = t,
                             !.error_count = 0],
          raised |-> TRUE]

(***************************************************************************)
(* start() at time t.  thread_ok: threading.Thread.start() does not raise. *)
(***************************************************************************)
start(s, t, thread_ok) ==
    IF s.is_running
    THEN [self |-> s, raised |-> FALSE]
    ELSE IF thread_ok
    THEN [self |-> [s EXCEPT !.is_running = TRUE,
                             !.last_flush_time = t,
                             !.error_count = 0,
                             !.threads = Append(@, [pc |-> "run", wake |-> t])],
          raised |-> FALSE]
    ELSE [self |-> [s EXCEPT !.is_running = FALSE,
                             !.last_flush_time = t,
                             !.error_count = 0],
          raised |-> TRUE]

(***************************************************************************)
(* stop().  fok, k: the outcome of its flush.                              *)
\* a slip: stop() leaves the buffer to a later flush
stop_without_flush(s, fok, k) ==
    IF s.is_running
    THEN [self |-> [s EXCEPT !.is_running = FALSE, !.hooked = FALSE],
          flush |-> "none", wrote |-> {}]
    ELSE [self |-> s, flush |-> "none", wrote |-> {}]

(***************************************************************************)
stop(s, fok, k) ==
    IF s.is_running
    THEN flush_events([s EXCEPT !.is_running = FALSE, !.hooked = FALSE], fok, k)
    ELSE [self |-> s, flush |-> "none", wrote |-> {}]

\* a slip: the timed flush is due at 30 s, not after more than 30 s
monitor_loop_flushes_at_interval(s, i, t, err, fok, k) ==
    IF ~s.is_running
    THEN [self |-> [s EXCEPT !.threads[i].pc = "exited"],
          iter |-> "exit", flush |-> "none", wrote |-> {}]
    ELSE IF ~err
    THEN LET due == t - s.last_flush_time >= FLUSH_INTERVAL
             f == IF due THEN flush_events(s, fok, k)
                  ELSE [self |-> s, flush |-> "none", wrote |-> {}]
             s1 == IF due THEN [f.self EXCEPT !.last_flush_time = t] ELSE f.self
         IN [self |-> [s1 EXCEPT !.error_count = 0,
                                 !.threads[i].wake = t + LOOP_SLEEP],
             iter |-> "ok", flush |-> f.flush, wrote |-> f.wrote]
    ELSE LET s1 == [s EXCEPT !.error_count = @ + 1]
         IN IF s1.error_count >= MAX_ERRORS
            THEN LET f == stop(s1, fok, k)
                 IN [self |-> [f.self EXCEPT !.threads[i].pc = "exited"],
                     iter |-> "err", flush |-> f.flush, wrote |-> f.wrote]
            ELSE [self |-> [s1 EXCEPT !.threads[i].wake = t + ERROR_SLEEP],
                  iter |-> "err", flush |-> "none", wrote |-> {}]

\* a slip: a successful iteration does not reset the error counter
monitor_loop_keeps_error_count(s, i, t, err, fok, k) ==
    IF ~s.is_running
    THEN [self |-> [s EXCEPT !.threads[i].pc = "exited"],
          iter |-> "exit", flush |-> "none", wrote |-> {}]
    ELSE IF ~err
    THEN LET due == t - s.last_flush_time > FLUSH_INTERVAL
             f == IF due THEN flush_events(s, fok, k)
                  ELSE [self |-> s, flush |-> "none", wrote |-> {}]
             s1 == IF due THEN [f.self EXCEPT !.last_flush_time = t] ELSE f.self
         IN [self |-> [s1 EXCEPT !.threads[i].wake = t + LOOP_SLEEP],
             iter |-> "ok", flush |-> f.flush, wrote |-> f.wrote]
    ELSE LET s1 == [s EXCEPT !.error_count = @ + 1]
         IN IF s1.error_count >= MAX_ERRORS
            THEN LET f == stop(s1, fok, k)
                 IN [self |-> [f.self EXCEPT !.threads[i].pc = "exited"],
                     iter |-> "err", flush |-> f.flush, wrote |-> f.wrote]
            ELSE [self |-> [s1 EXCEPT !.threads[i].wake = t + ERROR_SLEEP],
                  iter |-> "err", flush |-> "none", wrote |-> {}]

(***************************************************************************)
(* One pass of thread i through the while loop of _monitor_loop, at time   *)
(* t: the loop-top test and, while running, the try body up to its sleep.  *)
(* err: the body raises before it resets the error counter.                *)
(***************************************************************************)
monitor_loop(s, i, t, err, fok, k) ==
    IF ~s.is_running
    THEN [self |-> [s EXCEPT !.threads[i].pc = "exited"],
          iter |-> "exit", flush |-> "none", wrote |-> {}]
    ELSE IF ~err
    THEN LET due == t - s.last_flush_time > FLUSH_INTERVAL
             f == IF due THEN flush_events(s, fok, k)
                  ELSE [self |-> s, flush |-> "none", wrote |-> {}]
             s1 == IF due THEN [f.self EXCEPT !.last_flush_time = t] ELSE f.self
         IN [self |-> [s1 EXCEPT !.error_count = 0,
                                 !.threads[i].wake = t + LOOP_SLEEP],
             iter |-> "ok", flush |-> f.flush, wrote |-> f.wrote]
    ELSE LET s1 == [s EXCEPT !.error_count = @ + 1]
         IN IF s1.error_count >= MAX_ERRORS
            THEN LET f == stop(s1, fok, k)
                 IN [self |-> [f.self EXCEPT !.threads[i].pc = "exited"],
                     iter |-> "err", flush |-> f.flush, wrote |-> f.wrote]
            ELSE [self |-> [s1 EXCEPT !.threads[i].wake = t + ERROR_SLEEP],
                  iter |-> "err", flush |-> "none", wrote |-> {}]


(***************************************************************************)
(* The inputs.                                                             *)
(***************************************************************************)
\* the context _handle_keyboard_event builds
KeyboardContext ==
    [type |-> "keyboard", key |-> "a", event_type |-> "down", timestamp |-> "ts"]

\* the contexts _handle_mouse_event builds: with and without a position
MouseContexts ==
    {[type |-> "mouse", event_type |-> "click", position |-> "(100, 100)",
      button |-> "left", timestamp |-> "ts"],
     [type |-> "mouse", event_type |-> "down", position |-> "None",
      button |-> "left", timestamp |-> "ts"]}

\* the contexts of direct _log_event calls
TestContext == [key |-> "a", event_type |-> "down", time |-> "ts"]
DirectContexts == {TestContext, EmptyDict}

NoOp ==
    [op |-> "init", via |-> "none", pre |-> FALSE, accepted |-> FALSE, proc |-> FALSE,
     write |-> "none", flush |-> "none", raised |-> FALSE, tid |-> 0,
     elapsed |-> 0, iter |-> "none", prelen |-> 0, id |-> 0, context |-> EmptyDict]

Install(s) ==
    /\ is_running' = s.is_running
    /\ events' = s.events
    /\ disk' = s.disk
    /\ hooked' = s.hooked
    /\ last_flush_time' = s.last_flush_time
    /\ error_count' = s.error_count
    /\ threads' = s.threads
    /\ UNCHANGED <<log_file, current_session, limits>>

\* the outcomes a flush of a buffer of n events may have: <<ok, k>>
FlushOutcomes(n) ==
    {<<TRUE, 0>>, <<FALSE, 0>>} \cup
    (IF partialFlushes < limits.partial THEN {<<FALSE, k>> : k \in 1..(n - 1)} ELSE {})

\* the history of a flush with outcome r, after n accepted calls
NoteFlush(r, n) ==
    /\ flushedUpTo' = IF r.flush = "ok" THEN n ELSE flushedUpTo
    /\ partial' = partial \cup r.wrote
    /\ partialFlushes' = IF r.wrote # {} THEN partialFlushes + 1 ELSE partialFlushes

(***************************************************************************)
(* __init__: the tracker is not running, the buffer is empty, the hooks    *)
(* are installed.  log_file and current_session are formatted from two     *)
(* separate datetime.now() readings, one second apart at most here.        *)
(* _last_flush_time and _error_count do not exist before start(); nothing  *)
(* reads them before start() has set them.                                 *)
(***************************************************************************)
Construct ==
    /\ is_running = FALSE
    /\ events = <<>>
    /\ log_file \in SetupStamps
    /\ current_session \in (IF limits.skew THEN {log_file, log_file + 1} ELSE {log_file})
    /\ disk = [f \in SessionStamps |-> <<>>]
    /\ hooked = TRUE
    /\ last_flush_time = 0
    /\ error_count = 0
    /\ threads = <<>>
    /\ now = 0
    /\ crashed = FALSE
    /\ accepted = <<>>
    /\ flushedUpTo = 0
    /\ partial = {}
    /\ errRun = 0
    /\ partialFlushes = 0
    /\ loopRaised = FALSE
    /\ last = NoOp

\* events from the keyboard and mouse hooks
Hooks ==
    [events |-> MaxEvents, partial |-> 0, threads |-> 1, time |-> MaxTime,
     via |-> {"keyboard", "mouse"}, direct |-> {}, faulty |-> FALSE,
     crash |-> FALSE, skew |-> FALSE]

\* direct calls, and exceptions other than I/O errors
Direct ==
    [events |-> MaxEvents, partial |-> 0, threads |-> 1, time |-> MaxTime,
     via |-> {"direct"}, direct |-> DirectContexts, faulty |-> TRUE,
     crash |-> FALSE, skew |-> TRUE]

\* a burst of events of one kind, partial writes, a crash
Burst ==
    [events |-> BurstMaxEvents, partial |-> MaxPartialFlushes, threads |-> 1,
     time |-> MaxTime, via |-> {"direct"}, direct |-> {TestContext},
     faulty |-> FALSE, crash |-> TRUE, skew |-> TRUE]

\* the tracker started, stopped and started again
Restarts ==
    [events |-> TimedMaxEvents, partial |-> 0, threads |-> MaxThreads,
     time |-> MaxTime, via |-> {"keyboard"}, direct |-> {}, faulty |-> TRUE,
     crash |-> TRUE, skew |-> FALSE]

\* a session long enough for the timed flush
Timed ==
    [events |-> TimedMaxEvents, partial |-> 0, threads |-> 1,
     time |-> TimedMaxTime, via |-> {"keyboard"}, direct |-> {}, faulty |-> FALSE,
     crash |-> TRUE, skew |-> FALSE]

\* BaseTracker.__init__, and no flush in progress
NoFlusher == [pc |-> "idle", tid |-> 0, t |-> 0, events_to_write |-> <<>>]
WorkersIdle ==
    /\ running = FALSE
    /\ queue = <<>>
    /\ thread = "new"
    /\ activity_count = 0
    /\ processed = <<>>
    /\ stopped = FALSE
    /\ flusher = NoFlusher

\* the analysis side as constructed, and never called
NoCall == [fn |-> "none", exc |-> "none", ret |-> <<>>]
NewCognitiveMetrics ==
    [error_rate |-> <<>>, typing_speed |-> <<>>, pause_patterns |-> <<>>,
     task_switches |-> <<>>, focus_duration |-> <<>>, vocabulary_usage |-> {},
     last_window |-> "None", last_window_time |-> 0]
TimeScale == {"micro", "meso", "macro"}
AnalysisIdle ==
    /\ given = <<>>
    /\ call = NoCall
    /\ cognitive_metrics = NewCognitiveMetrics
    /\ patterns = [scale \in TimeScale |-> <<>>]
    /\ resonances = <<>>
    /\ resonance_history = <<>>

Init ==
    /\ limits \in {Hooks, Direct, Burst, Restarts}
    /\ Construct
    /\ WorkersIdle
    /\ AnalysisIdle

InitTimed ==
    /\ limits = Timed
    /\ Construct
    /\ WorkersIdle
    /\ AnalysisIdle

\* what no step of the tracker object changes
Frame == UNCHANGED <<now, crashed, analysis, workers>>

\* a _log_event call, direct or from a hook handler; an input the call does
\* not consult is fixed
DoLogEvent(via, event_type, context) ==
    \E p, w \in BOOLEAN, fo \in FlushOutcomes(Len(events) + 1) :
        /\ is_running => (via \in limits.via /\ Len(accepted) < limits.events)
        /\ p => limits.faulty
        /\ (~is_running \/ p) => w
        /\ (~is_running \/ p \/ ~w \/ Len(events) + 1 < FLUSH_THRESHOLD) => fo = <<TRUE, 0>>
        /\ LET r == log_event(Self, event_type, context, Len(accepted) + 1,
                              is_running /\ p, w, fo[1], fo[2])
           IN /\ Install(r.self)
              /\ accepted' =
                    IF r.accepted
                    THEN Append(accepted, [context |-> context, proc |-> r.proc,
                                           write |-> r.write])
                    ELSE accepted
              /\ NoteFlush(r, Len(accepted'))
              /\ last' = [NoOp EXCEPT !.op = "log_event", !.via = via,
                                      !.pre = is_running, !.accepted = r.accepted,
                                      !.proc = r.proc, !.write = r.write,
                                      !.flush = r.flush, !.prelen = Len(events),
                                      !.raised = r.raised,
                                      !.id = IF r.accepted THEN Len(accepted) + 1 ELSE 0,
                                      !.context = IF r.accepted THEN context ELSE EmptyDict]
        /\ UNCHANGED <<errRun, loopRaised>>
        /\ Frame

\* the keyboard hook calls _handle_keyboard_event
HandleKeyboardEvent ==
    /\ ~crashed
    /\ hooked
    /\ IF is_running
       THEN DoLogEvent("keyboard", "keyboard", KeyboardContext)
       ELSE /\ last' = [NoOp EXCEPT !.op = "handler", !.via = "keyboard"]
            /\ UNCHANGED <<prog, accepted, flushedUpTo, partial, errRun,
                           partialFlushes, loopRaised, limits>>
            /\ Frame

\* the mouse hook calls _handle_mouse_event
HandleMouseEvent ==
    /\ ~crashed
    /\ hooked
    /\ IF is_running
       THEN \E c \in MouseContexts : DoLogEvent("mouse", "mouse", c)
       ELSE /\ last' = [NoOp EXCEPT !.op = "handler", !.via = "mouse"]
            /\ UNCHANGED <<prog, accepted, flushedUpTo, partial, errRun,
                           partialFlushes, loopRaised, limits>>
            /\ Frame

\* a direct call of _log_event, as the tests make
LogEventCall ==
    /\ ~crashed
    /\ \E c \in DirectContexts :
        /\ is_running => c \in limits.direct
        /\ DoLogEvent("direct", "test", c)

\* a direct call of _flush_events, as the tests make
FlushEventsCall ==
    /\ ~crashed
    /\ \E fo \in FlushOutcomes(Len(events)) :
        LET r == flush_events(Self, fo[1], fo[2])
        IN /\ Install(r.self)
           /\ NoteFlush(r, Len(accepted))
           /\ last' = [NoOp EXCEPT !.op = "flush", !.pre = is_running,
                                   !.flush = r.flush, !.prelen = Len(events)]
    /\ UNCHANGED <<accepted, errRun, loopRaised>>
    /\ Frame

StartCall ==
    /\ ~crashed
    /\ \E thread_ok \in BOOLEAN :
        /\ (~is_running /\ thread_ok) => Len(threads) < limits.threads
        /\ is_running => thread_ok
        /\ ~thread_ok => limits.faulty
        /\ LET r == start(Self, now, thread_ok)
           IN /\ Install(r.self)
              /\ errRun' = IF is_running THEN errRun ELSE 0
              /\ loopRaised' = (is_running /\ loopRaised)
              /\ last' = [NoOp EXCEPT !.op = "start", !.pre = is_running,
                                      !.raised = r.raised]
    /\ UNCHANGED <<accepted, flushedUpTo, partial, partialFlushes>>
    /\ Frame

StopCall ==
    /\ ~crashed
    /\ \E fo \in FlushOutcomes(Len(events)) :
        /\ ~is_running => fo = <<TRUE, 0>>
        /\ LET r == stop(Self, fo[1], fo[2])
           IN /\ Install(r.self)
              /\ NoteFlush(r, Len(accepted))
              /\ last' = [NoOp EXCEPT !.op = "stop", !.pre = is_running,
                                      !.flush = r.flush, !.prelen = Len(events)]
    /\ UNCHANGED <<accepted, errRun, loopRaised>>
    /\ Frame

\* monitor thread i wakes and goes once through its loop
MonitorStep(i) ==
    /\ ~crashed
    /\ threads[i].pc = "run"
    /\ threads[i].wake <= now
    /\ \E err \in BOOLEAN, fo \in FlushOutcomes(Len(events)) :
        /\ ~is_running => (~err /\ fo = <<TRUE, 0>>)
        /\ LET r == monitor_loop(Self, i, now, err, fo[1], fo[2])
           IN /\ r.flush = "none" => fo = <<TRUE, 0>>
              /\ Install(r.self)
              /\ NoteFlush(r, Len(accepted))
              /\ errRun' = CASE r.iter = "err" -> errRun + 1
                             [] r.iter = "ok" -> 0
                             [] OTHER -> errRun
              /\ loopRaised' = (loopRaised \/ r.iter = "err")
              /\ last' = [NoOp EXCEPT !.op = "monitor", !.pre = is_running,
                                      !.flush = r.flush, !.iter = r.iter, !.tid = i,
                                      !.elapsed = now - last_flush_time,
                                      !.prelen = Len(events)]
    /\ UNCHANGED accepted
    /\ Frame

\* A second passes; a thread whose sleep is over runs first.  Only start() and
\* the monitor threads read the clock, and only differences of its readings
\* matter, so time is let pass only while a monitor thread is alive.
Tick ==
    /\ ~crashed
    /\ now < limits.time
    /\ \E i \in 1..Len(threads) : threads[i].pc = "run"
    /\ \A i \in 1..Len(threads) : threads[i].pc = "run" => threads[i].wake > now
    /\ now' = now + 1
    /\ last' = [NoOp EXCEPT !.op = "tick"]
    /\ UNCHANGED <<prog, crashed, accepted, flushedUpTo, partial, errRun,
                   partialFlushes, loopRaised, limits, analysis, workers>>

\* the process dies: the memory is gone, the files stay
Crash ==
    /\ ~crashed
    /\ limits.crash
    /\ crashed' = TRUE
    /\ last' = [NoOp EXCEPT !.op = "crash"]
    /\ UNCHANGED <<prog, now, accepted, flushedUpTo, partial, errRun,
                   partialFlushes, loopRaised, limits, analysis, workers>>

Next ==
    \/ HandleKeyboardEvent
    \/ HandleMouseEvent
    \/ LogEventCall
    \/ FlushEventsCall
    \/ StartCall
    \/ StopCall
    \/ \E i \in 1..Len(threads) : MonitorStep(i)
    \/ Tick
    \/ Crash

Spec == Init /\ [][Next]_vars

SpecTimed == InitTimed /\ [][Next]_vars

(***************************************************************************)
(* The properties.                                                         *)
(***************************************************************************)
InBuffer(id) == \E i \in 1..Len(events) : events[i].id = id
OnFile(f, id) == \E i \in 1..Len(disk[f]) : disk[f][i].id = id
OnDisk(id) == \E f \in DOMAIN disk : OnFile(f, id)
IsPrefix(a, b) == Len(a) <= Len(b) /\ SubSeq(b, 1, Len(a)) = a
LoggedWhileRunning == last.op = "log_event" /\ last.pre

\* C1: with file writes failing or succeeding at will, every event a
\* _log_event call accepted while the tracker ran, and built without another
\* exception, is in the buffer or in a log file.
C1_NoAcceptedEventLost ==
    \A id \in 1..Len(accepted) :
        ~accepted[id].proc => InBuffer(id) \/ OnDisk(id)

\* an event whose immediate write failed has left the buffer and is in a file
C1_Witness ==
    \E id \in 1..Len(accepted) :
        accepted[id].write = "fail" /\ ~InBuffer(id) /\ OnDisk(id)

\* C2: a _log_event call whose immediate write fails while the tracker runs
\* raises nothing, leaves is_running true and appends the event (the buffer
\* grows by exactly one); a later call whose write succeeds writes its line
\* and buffers or flushes its event.
C2_WriteFailureKeepsEvent ==
    /\ (LoggedWhileRunning /\ last.write = "fail") =>
          /\ ~last.raised
          /\ is_running
          /\ Len(events) = last.prelen + 1
          /\ events[Len(events)].id = last.id
    /\ (LoggedWhileRunning /\ last.write = "ok"
          /\ \E j \in 1..(last.id - 1) : accepted[j].write = "fail") =>
          /\ ~last.raised
          /\ is_running
          /\ OnFile(log_file, last.id)
          /\ InBuffer(last.id) \/ last.flush = "ok"

\* a write succeeds after an earlier one failed, the earlier event still buffered
C2_Witness ==
    /\ LoggedWhileRunning
    /\ last.write = "ok"
    /\ \E j \in 1..(last.id - 1) : accepted[j].write = "fail" /\ InBuffer(j)

\* C3: a flush whose write fails leaves the buffer as it was; the buffer
\* loses events only by a flush whose write succeeded, which empties it; and
\* the buffer holds as many events as were accepted since that flush.
C3_Step ==
    /\ (last'.flush = "fail" /\ last'.op # "log_event") => events' = events
    /\ (last'.flush = "fail" /\ last'.op = "log_event") =>
          /\ Len(events') = Len(events) + 1
          /\ IsPrefix(events, events')
    /\ IsPrefix(events, events') \/ (events' = <<>> /\ last'.flush = "ok")

C3_Length ==
    (\A id \in (flushedUpTo + 1)..Len(accepted) : ~accepted[id].proc) =>
        Len(events) = Len(accepted) - flushedUpTo

C3_FailedFlushKeepsBuffer == [](C3_Length) /\ [][C3_Step]_vars

\* flushes have failed and the buffer has grown past the flush threshold
C3_Witness ==
    /\ last.flush = "fail"
    /\ Len(events) > FLUSH_THRESHOLD
    /\ Len(events) = Len(accepted) - flushedUpTo

\* C4 as stated: whenever a call made while running leaves the buffer at or
\* over the threshold, the call has attempted a flush.
C4_Original ==
    (LoggedWhileRunning /\ ~last.proc /\ Len(events) >= FLUSH_THRESHOLD) =>
        last.flush \in {"ok", "fail"}

\* C4: a call made while running attempts a flush exactly when its immediate
\* write succeeded and its append brought the buffer to the threshold or over;
\* a call whose write failed returns without a flush.
C4_FlushAfterSuccessfulWrite ==
    (LoggedWhileRunning /\ last.accepted) =>
        ((last.write = "ok" /\ last.prelen + 1 >= FLUSH_THRESHOLD)
            <=> last.flush \in {"ok", "fail"})

\* a flush was attempted and failed: the buffer is still at the threshold
C4_Witness ==
    /\ LoggedWhileRunning
    /\ last.write = "ok"
    /\ last.flush = "fail"
    /\ Len(events) >= FLUSH_THRESHOLD

MonitorIterated == last.op = "monitor" /\ last.pre
SomeThreadAlive == \E i \in 1..Len(threads) : threads[i].pc = "run"

C6_Original ==
    crashed => \A i \in 1..Len(events) : ~OnDisk(events[i].id)

\* C6: after a crash an event that was in the buffer is in a file exactly
\* when its immediate write had succeeded (it is then in log_file) or a
\* failed flush had written its line before failing; every other buffered
\* event is in no file.
C6_CrashLosesUnwritten ==
    crashed =>
        \A i \in 1..Len(events) :
            LET id == events[i].id
            IN /\ OnDisk(id) <=> (accepted[id].write = "ok" \/ id \in partial)
               /\ accepted[id].write = "ok" => OnFile(log_file, id)

\* at the crash the buffer holds an event that is in no file and one that is
C6_Witness ==
    /\ crashed
    /\ \E i \in 1..Len(events) : ~OnDisk(events[i].id)
    /\ \E i \in 1..Len(events) :
          accepted[events[i].id].write = "ok" /\ OnFile(log_file, events[i].id)

\* C7: an iteration that does not raise resets the error counter; one that
\* raises stops the tracker (is_running false, the buffer flushed, the thread
\* gone) when it is the third in a row, and otherwise sleeps 5 s with the
\* tracker still running; the loop stops the tracker in no other case.
C7_MonitorErrors ==
    /\ (MonitorIterated /\ last.iter = "ok") => (error_count = 0 /\ is_running)
    /\ (MonitorIterated /\ last.iter = "err" /\ errRun >= MAX_ERRORS) =>
          /\ ~is_running
          /\ threads[last.tid].pc = "exited"
          /\ last.flush # "none"
          /\ last.flush = "ok" => events = <<>>
    /\ (MonitorIterated /\ last.iter = "err" /\ errRun < MAX_ERRORS) =>
          /\ is_running
          /\ threads[last.tid].pc = "run"
          /\ threads[last.tid].wake = now + ERROR_SLEEP
          /\ last.flush = "none"
    /\ (MonitorIterated /\ ~is_running) =>
          (last.iter = "err" /\ errRun = MAX_ERRORS)

\* the third error in a row has stopped the tracker and flushed the buffer
C7_Witness ==
    /\ MonitorIterated
    /\ last.iter = "err"
    /\ errRun = MAX_ERRORS
    /\ ~is_running
    /\ last.flush = "ok"

\* C8: a new tracker is not running; start() on a tracker that is not
\* running sets is_running and launches one monitor thread; stop() on a
\* running tracker clears is_running; start() on a running tracker and
\* stop() on a stopped one change nothing.  (start() returning normally.)
C8_Step ==
    /\ (last'.op = "start" /\ ~last'.raised) =>
          IF is_running
          THEN UNCHANGED prog
          ELSE /\ is_running'
               /\ Len(threads') = Len(threads) + 1
               /\ IsPrefix(threads, threads')
               /\ threads'[Len(threads')].pc = "run"
    /\ last'.op = "stop" =>
          IF is_running THEN ~is_running' ELSE UNCHANGED prog

C8_StartStop == ~is_running /\ [][C8_Step]_vars

\* start() was called on a tracker that had been started, stopped and
\* started again: two threads were launched, and no third
C8_Witness ==
    /\ last.op = "start"
    /\ last.pre
    /\ is_running
    /\ Len(threads) = 2

\* C9: a _log_event call on a running tracker whose write succeeds and whose
\* append leaves the buffer under the threshold adds exactly one line to
\* log_file and none to any other file; the line holds type, timestamp,
\* window, system_metrics and every key of the context.
C9_Step ==
    (last'.op = "log_event" /\ last'.pre /\ last'.write = "ok"
        /\ Len(events) + 1 < FLUSH_THRESHOLD) =>
        /\ Len(disk'[log_file]) = Len(disk[log_file]) + 1
        /\ IsPrefix(disk[log_file], disk'[log_file])
        /\ \A f \in DOMAIN disk : f # log_file => disk'[f] = disk[f]
        /\ LET line == disk'[log_file][Len(disk'[log_file])]
           IN /\ line.id = last'.id
              /\ {"type", "timestamp", "window", "system_metrics"}
                    \cup DOMAIN last'.context \subseteq DOMAIN line.json
              /\ "type" \notin DOMAIN last'.context =>
                    line.json["type"] = (IF last'.via = "direct" THEN "test"
                                         ELSE last'.via)

C9_OneLinePerEvent == [][C9_Step]_vars

\* the line of a direct call with the context of the unit test is in log_file
C9_Witness ==
    /\ LoggedWhileRunning
    /\ last.write = "ok"
    /\ last.flush = "none"
    /\ last.context = TestContext
    /\ Len(disk[log_file]) = 1
    /\ DOMAIN disk[log_file][1].json =
          {"type", "timestamp", "window", "system_metrics", "key", "event_type", "time"}

\* C10 as stated: every line the tracker writes is in the one file named by
\* the session timestamp.
C10_OneLogFile ==
    \A f \in DOMAIN disk : disk[f] # <<>> => f = current_session

(***************************************************************************)
(* The metric extractors of core/monitoring/cognitive_tracker.py.          *)
(*                                                                         *)
(* Python floats that are quotients of small integers are exact rational   *)
(* numbers here: [n |-> numerator, d |-> denominator], in lowest terms.    *)
(***************************************************************************)
\* the longest event list given to an extractor
MaxList == 3
\* the longest list of file events given to an extractor
MaxFileList == 4
\* keystrokes the tracker handles in one behaviour
MaxKeystrokes == 1

tracker == <<prog, crashed, accepted, flushedUpTo, partial, errRun,
             partialFlushes, loopRaised, limits, last>>

Abs(x) == IF x < 0 THEN -x ELSE x
Max(a, b) == IF a > b THEN a ELSE b

RECURSIVE GCD(_, _)
GCD(a, b) == IF b = 0 THEN a ELSE GCD(b, a % b)

R(n, d) == LET g == GCD(Abs(n), d) IN [n |-> n \div g, d |-> d \div g]
RInt(k) == [n |-> k, d |-> 1]
Zero == RInt(0)
One == RInt(1)
RAdd(a, b) == R(a.n * b.d + b.n * a.d, a.d * b.d)
RSub(a, b) == R(a.n * b.d - b.n * a.d, a.d * b.d)
RDiv(a, b) == R(a.n * b.d, a.d * b.n)
RLe(a, b) == a.n * b.d <= b.n * a.d
RLt(a, b) == a.n * b.d < b.n * a.d
RMin(a, b) == IF RLe(a, b) THEN a ELSE b
RMax(a, b) == IF RLe(a, b) THEN b ELSE a

RECURSIVE SeqSum(_)
SeqSum(q) == IF q = <<>> THEN 0 ELSE Head(q) + SeqSum(Tail(q))
RECURSIVE SeqMin(_)
SeqMin(q) == IF Len(q) = 1 THEN q[1] ELSE Min(Head(q), SeqMin(Tail(q)))
RECURSIVE SeqMax(_)
SeqMax(q) == IF Len(q) = 1 THEN q[1] ELSE Max(Head(q), SeqMax(Tail(q)))
\* math.sqrt rounded down to a whole number (exact on squares)
ISqrt(x) == CHOOSE r \in 0..1000 : r * r <= x /\ x < (r + 1) * (r + 1)

\* the lists of at most n elements of U
Lists(U, n) == UNION {[1..k -> U] : k \in 0..n}

\* what a call gives back: a dict, or an exception; self is the tracker
\* state (cognitive_metrics) the call leaves
Return(s, ret) == [exc |-> "none", ret |-> ret, self |-> s]
Raise(s, exc) == [exc |-> exc, ret |-> <<>>, self |-> s]

\* A timestamp is a datetime (as in the unit tests), a float (time.time(),
\* as in the logged evs) or a string; t is its time in seconds.
\* (a['timestamp'] - b['timestamp']).total_seconds()
TimeDiff(a, b) ==
    IF "timestamp" \notin DOMAIN a \/ "timestamp" \notin DOMAIN b
    THEN [exc |-> "KeyError", v |-> 0]
    ELSE IF a.timestamp.kind = "datetime" /\ b.timestamp.kind = "datetime"
    THEN [exc |-> "none", v |-> a.timestamp.t - b.timestamp.t]
    ELSE IF a.timestamp.kind = "float" /\ b.timestamp.kind = "float"
    THEN [exc |-> "AttributeError", v |-> 0]   \* float has no total_seconds
    ELSE [exc |-> "TypeError", v |-> 0]        \* no such subtraction

OfType(evs, t) == SelectSeq(evs, LAMBDA e : e.type = t)
LacksType(evs) == \E i \in 1..Len(evs) : "type" \notin DOMAIN evs[i]

\* a slip: the memory score is not cut off at 0
analyze_memory_patterns_unclamped(s, evs) ==
    IF \E i \in 1..Len(evs) :
          \/ "type" \notin DOMAIN evs[i]
          \/ evs[i].type = "file_access" /\ "path" \notin DOMAIN evs[i]
    THEN Raise(s, "KeyError")
    ELSE LET accesses == OfType(evs, "file_access")
             folder_sequence == [i \in 1..Len(accesses) |-> accesses[i].path]
             incorrect == Cardinality({i \in 2..Len(folder_sequence) :
                              folder_sequence[i] # folder_sequence[i - 1]})
             repeated == Cardinality({i \in 1..Len(folder_sequence) :
                              \E j \in 1..(i - 1) : folder_sequence[j] = folder_sequence[i]})
             total_actions == Len(evs)
         IN Return(s,
                [incorrect_folder_attempts |-> RInt(incorrect),
                 repeated_access_count |-> RInt(repeated),
                 save_frequency |-> Zero,
                 memory_score |->
                     IF total_actions > 0
                     THEN RSub(One, R(incorrect + repeated, total_actions))
                     ELSE Zero])

\* _analyze_memory_patterns
analyze_memory_patterns(s, evs) ==
    IF \E i \in 1..Len(evs) :
          \/ "type" \notin DOMAIN evs[i]
          \/ evs[i].type = "file_access" /\ "path" \notin DOMAIN evs[i]
    THEN Raise(s, "KeyError")
    ELSE LET accesses == OfType(evs, "file_access")
             folder_sequence == [i \in 1..Len(accesses) |-> accesses[i].path]
             incorrect == Cardinality({i \in 2..Len(folder_sequence) :
                              folder_sequence[i] # folder_sequence[i - 1]})
             repeated == Cardinality({i \in 1..Len(folder_sequence) :
                              \E j \in 1..(i - 1) : folder_sequence[j] = folder_sequence[i]})
             total_actions == Len(evs)
         IN Return(s,
                [incorrect_folder_attempts |-> RInt(incorrect),
                 repeated_access_count |-> RInt(repeated),
                 save_frequency |-> Zero,
                 memory_score |->
                     IF total_actions > 0
                     THEN RMax(Zero, RSub(One, R(incorrect + repeated, total_actions)))
                     ELSE Zero])

\* _analyze_executive_function
analyze_executive_function(s, evs) ==
    IF LacksType(evs) THEN Raise(s, "KeyError")
    ELSE LET window_switches == OfType(evs, "window_switch")
             n == Len(window_switches)
             diff == IF n > 1 THEN TimeDiff(window_switches[n], window_switches[1])
                     ELSE [exc |-> "none", v |-> 0]
             task_switching_frequency ==
                 IF n > 1 /\ diff.exc = "none" /\ diff.v > 0
                 THEN R(60 * n, diff.v) ELSE Zero
             parallel_tasks == {evs[i].window_title :
                                  i \in {j \in 1..Len(evs) : "window_title" \in DOMAIN evs[j]}}
             multitasking_score == RMin(R(Cardinality(parallel_tasks), 5), One)
         IN IF diff.exc = "AttributeError" THEN Raise(s, "AttributeError")
            ELSE Return(s,
                [task_switching_frequency |-> task_switching_frequency,
                 multitasking_score |-> multitasking_score,
                 organization_efficiency |-> Zero,
                 executive_score |->
                     RDiv(RAdd(multitasking_score,
                               RSub(One, RMin(RDiv(task_switching_frequency, RInt(10)), One))),
                          RInt(2))])

RECURSIVE SumLen(_)
SumLen(words) ==
    IF words = {} THEN 0
    ELSE LET w == CHOOSE x \in words : TRUE IN Len(w) + SumLen(words \ {w})

\* _analyze_language_patterns; it reads self.cognitive_metrics['vocabulary_usage']
analyze_language_patterns(s, evs) ==
    IF LacksType(evs) THEN Raise(s, "KeyError")
    ELSE LET typing_events == OfType(evs, "keyboard")
             char_count == Len(typing_events)
             diff == IF char_count > 0
                     THEN TimeDiff(typing_events[char_count], typing_events[1])
                     ELSE [exc |-> "none", v |-> 0]
             nokey == \E i \in 1..char_count : "key" \notin DOMAIN typing_events[i]
             caught == diff.exc \in {"KeyError", "TypeError"} \/ nokey
             typing_speed ==
                 IF char_count > 0 /\ ~caught /\ diff.v > 0
                 THEN R(12 * char_count, diff.v) ELSE Zero
             error_events == Cardinality({i \in 1..char_count :
                                 "key" \in DOMAIN typing_events[i]
                                 /\ typing_events[i].key = "backspace"})
             error_correction_rate ==
                 IF char_count > 0 /\ ~caught THEN R(error_events, char_count) ELSE Zero
             words == s.vocabulary_usage
             vocabulary_complexity ==
                 IF words # {}
                 THEN RDiv(R(SumLen(words), Cardinality(words)), RInt(10)) ELSE Zero
         IN IF diff.exc = "AttributeError" THEN Raise(s, "AttributeError")
            ELSE Return(s,
                [typing_speed |-> typing_speed,
                 error_correction_rate |-> error_correction_rate,
                 vocabulary_complexity |-> vocabulary_complexity,
                 language_score |->
                     RDiv(RAdd(RAdd(RMin(RDiv(typing_speed, RInt(60)), One),
                                    RSub(One, error_correction_rate)),
                               vocabulary_complexity),
                          RInt(3))])

\* math.sqrt((x2-x1)**2 + (y2-y1)**2)
Distance(p, q) == ISqrt((q.x - p.x) * (q.x - p.x) + (q.y - p.y) * (q.y - p.y))

\* min(np.std(distances) / 100, 1).  The variance is exact; the root is cut
\* to a tenth, which is exact for one or two distances on whole coordinates.
StdOver100(distances) ==
    LET n == Len(distances)
        sum == SeqSum(distances)
        sumsq == SeqSum([i \in 1..n |-> distances[i] * distances[i]])
        nnvar == n * sumsq - sum * sum        \* n * n * variance
    IN IF nnvar >= 10000 * n * n THEN One
       ELSE R(ISqrt((100 * nnvar) \div (n * n)), 1000)

BadPosition(e) == "position" \notin DOMAIN e \/ e.position.none
PositionError(e) == IF "position" \notin DOMAIN e THEN "KeyError" ELSE "TypeError"

\* _analyze_perception_action
analyze_perception_action(s, evs) ==
    IF \E i \in 1..Len(evs) :
          \/ "type" \notin DOMAIN evs[i]
          \/ evs[i].type = "mouse" /\ "event_type" \notin DOMAIN evs[i]
    THEN Raise(s, "KeyError")
    ELSE LET mouse == OfType(evs, "mouse")
             mouse_moves == SelectSeq(mouse, LAMBDA e : e.event_type = "move")
             clicks == SelectSeq(mouse, LAMBDA e : e.event_type = "click")
             m == Len(mouse_moves)
             measured == m > 1
             checked == clicks # <<>> /\ mouse_moves # <<>>
             badmoves == {i \in 1..m : BadPosition(mouse_moves[i])}
             badclicks == {i \in 1..Len(clicks) : BadPosition(clicks[i])}
         IN IF measured /\ badmoves # {}
            THEN Raise(s, PositionError(mouse_moves[CHOOSE i \in badmoves : \A j \in badmoves : i <= j]))
            ELSE IF checked /\ badclicks # {}
            THEN Raise(s, PositionError(clicks[CHOOSE i \in badclicks : \A j \in badclicks : i <= j]))
            ELSE IF checked /\ badmoves # {}
            THEN Raise(s, PositionError(mouse_moves[1]))
            ELSE LET distances == [i \in 1..(m - 1) |->
                                     Distance(mouse_moves[i].position, mouse_moves[i + 1].position)]
                     mouse_precision ==
                         IF measured THEN RSub(One, StdOver100(distances)) ELSE Zero
                     movement_smoothness ==
                         IF measured THEN RSub(One, RMin(R(SeqMax(distances), 500), One)) ELSE Zero
                     recent == SubSeq(mouse_moves, Max(1, m - 4), m)
                     misclicks == Cardinality({i \in 1..Len(clicks) :
                                     \E j \in 1..Len(recent) :
                                        Distance(clicks[i].position, recent[j].position) > 20})
                     click_accuracy ==
                         IF checked THEN RSub(One, R(misclicks, Len(clicks))) ELSE Zero
                 IN Return(s,
                        [mouse_precision |-> mouse_precision,
                         click_accuracy |-> click_accuracy,
                         movement_smoothness |-> movement_smoothness,
                         perception_score |->
                             RDiv(RAdd(RAdd(mouse_precision, click_accuracy),
                                       movement_smoothness),
                                  RInt(3))])

RECURSIVE RSum(_)
RSum(q) == IF q = <<>> THEN Zero ELSE RAdd(Head(q), RSum(Tail(q)))

\* the mean of the last 10 measurements, 0.0 when there is none
RecentMean(q) ==
    IF q = <<>> THEN Zero
    ELSE LET recent == SubSeq(q, Max(1, Len(q) - 9), Len(q))
         IN RDiv(RSum(recent), RInt(Len(recent)))

\* dict.get(key, default)
Get(d, key, default) == IF key \in DOMAIN d THEN d[key] ELSE default

\* _calculate_cognitive_load(metrics); none: called with metrics=None
calculate_cognitive_load(s, metrics, none, current_time) ==
    LET m == IF none
             THEN [typing_speed |-> RecentMean(s.typing_speed),
                   error_rate |-> RecentMean(s.error_rate),
                   task_switches |-> RInt(Len(s.task_switches)),
                   focus_score |-> RecentMean(s.focus_duration)]
             ELSE metrics
        domain_scores ==
            [memory |-> Get(m, "memory_score", Zero),
             executive |-> Get(m, "executive_score", Zero),
             language |-> Get(m, "language_score", Zero),
             perception |-> Get(m, "perception_score", Zero)]
    IN Return(s,
           [overall_score |->
                RDiv(RAdd(RAdd(domain_scores.memory, domain_scores.executive),
                          RAdd(domain_scores.language, domain_scores.perception)),
                     RInt(4)),
            domain_scores |-> domain_scores,
            timestamp |-> current_time])

\* a slip: the keyboard handler also counts the typed word
cognitive_handle_keyboard_event_counts_words(s, name, current_time) ==
    [s EXCEPT !.error_rate = Append(@, RInt(IF name = "backspace" THEN 1 ELSE 0)),
              !.pause_patterns = Append(@, current_time),
              !.vocabulary_usage = @ \cup {<<name>>}]

\* CognitiveInteractionTracker._handle_keyboard_event, after the handler of
\* the base class has returned
cognitive_handle_keyboard_event(s, name, current_time) ==
    LET s1 == [s EXCEPT !.error_rate = Append(@, RInt(IF name = "backspace" THEN 1 ELSE 0))]
        n == Len(s.pause_patterns)
        time_diff == current_time - s.pause_patterns[n]
        s2 == IF n > 1 /\ time_diff < 2
              THEN [s1 EXCEPT !.typing_speed = Append(@, R(60, time_diff * 5))]
              ELSE s1
    IN [s2 EXCEPT !.pause_patterns = Append(@, current_time)]

(***************************************************************************)
(* The event lists given to the extractors: the events of the unit tests   *)
(* (datetime timestamps), events as the tracker logs them (float           *)
(* timestamps, position None) and events that lack a key.                  *)
(***************************************************************************)
Stamp(kind, t) == [kind |-> kind, t |-> t]
Pos(x, y) == [none |-> FALSE, x |-> x, y |-> y]
NonePos == [none |-> TRUE, x |-> 0, y |-> 0]

FileEvents ==
    {[type |-> "file_access", path |-> "/wrong/folder1"],
     [type |-> "file_access", path |-> "/correct/folder"],
     [type |-> "file_access"],
     [path |-> "/correct/folder"]}

WindowEvents ==
    {[type |-> "window_switch", window_title |-> "App1", timestamp |-> Stamp("datetime", 0)],
     [type |-> "window_switch", window_title |-> "App2", timestamp |-> Stamp("datetime", 2)],
     [type |-> "window_switch", window_title |-> "App1", timestamp |-> Stamp("datetime", 60)],
     [type |-> "window_switch", window_title |-> "App2", timestamp |-> Stamp("float", 1)],
     [type |-> "window_switch", window_title |-> "App3"]}

KeyEvents ==
    {[type |-> "keyboard", key |-> "a", event_type |-> "down", timestamp |-> Stamp("datetime", 0)],
     [type |-> "keyboard", key |-> "backspace", event_type |-> "down", timestamp |-> Stamp("datetime", 1)],
     [type |-> "keyboard", key |-> "b", event_type |-> "down", timestamp |-> Stamp("datetime", 60)],
     [type |-> "keyboard", key |-> "a", event_type |-> "down", timestamp |-> Stamp("float", 0)],
     [type |-> "keyboard", key |-> "a", event_type |-> "down", timestamp |-> Stamp("str", 0)],
     [type |-> "keyboard", event_type |-> "down", timestamp |-> Stamp("datetime", 2)]}

PointerEvents ==
    {[type |-> "mouse", event_type |-> "move", position |-> Pos(0, 0)],
     [type |-> "mouse", event_type |-> "move", position |-> Pos(10, 0)],
     [type |-> "mouse", event_type |-> "move", position |-> Pos(600, 0)],
     [type |-> "mouse", event_type |-> "click", position |-> Pos(0, 0)],
     [type |-> "mouse", event_type |-> "move", position |-> NonePos],
     [type |-> "mouse", position |-> Pos(0, 0)]}

EventLists ==
    Lists(FileEvents, MaxFileList) \cup Lists(WindowEvents, MaxList)
        \cup Lists(KeyEvents, MaxList) \cup Lists(PointerEvents, MaxList)

\* the metrics of test_cognitive_load_calculation
TestLoadMetrics ==
    [memory |-> [score |-> R(8, 10)], executive |-> [score |-> R(7, 10)],
     language |-> [score |-> R(9, 10)], perception |-> [score |-> R(85, 100)]]

Extractors == {"memory", "executive", "language", "perception"}

Extract(fn, s, evs) ==
    CASE fn = "memory" -> analyze_memory_patterns(s, evs)
      [] fn = "executive" -> analyze_executive_function(s, evs)
      [] fn = "language" -> analyze_language_patterns(s, evs)
      [] fn = "perception" -> analyze_perception_action(s, evs)

\* the results of the four extractors in one dict, when all four return
AllMetrics(s, evs) ==
    DictMerge(DictMerge(Extract("memory", s, evs).ret, Extract("executive", s, evs).ret),
              DictMerge(Extract("language", s, evs).ret, Extract("perception", s, evs).ret))

AnalysisFrame ==
    UNCHANGED <<tracker, workers, given, patterns, resonances, resonance_history>>

Called(fn, r) ==
    /\ call' = [fn |-> fn, exc |-> r.exc, ret |-> r.ret]
    /\ cognitive_metrics' = r.self
    /\ UNCHANGED now
    /\ AnalysisFrame

AnalyzeMemoryPatterns == Called("memory", analyze_memory_patterns(cognitive_metrics, given))
AnalyzeExecutiveFunction == Called("executive", analyze_executive_function(cognitive_metrics, given))
AnalyzeLanguagePatterns == Called("language", analyze_language_patterns(cognitive_metrics, given))
AnalyzePerceptionAction == Called("perception", analyze_perception_action(cognitive_metrics, given))

CalculateCognitiveLoad ==
    \/ Called("load_none", calculate_cognitive_load(cognitive_metrics, <<>>, TRUE, now))
    \/ Called("load_test", calculate_cognitive_load(cognitive_metrics, TestLoadMetrics, FALSE, now))
    \/ /\ \A fn \in Extractors : Extract(fn, cognitive_metrics, given).exc = "none"
       /\ Called("load", calculate_cognitive_load(cognitive_metrics,
                            AllMetrics(cognitive_metrics, given), FALSE, now))

\* a key goes down, some seconds after the last step; the tracker has not
\* been started, so the handler of the base class returns at once
CognitiveHandleKeyboardEvent ==
    \E name \in {"a", "backspace"}, dt \in {1, 3} :
        /\ hooked
        /\ ~is_running
        /\ Len(cognitive_metrics.pause_patterns) < MaxKeystrokes
        /\ now' = now + dt
        /\ cognitive_metrics' = cognitive_handle_keyboard_event(cognitive_metrics, name, now')
        /\ call' = [fn |-> "keyboard", exc |-> "none", ret |-> <<>>]
        /\ AnalysisFrame

InitMetrics ==
    /\ limits = Hooks
    /\ Construct
    /\ WorkersIdle
    /\ given \in EventLists
    /\ call = NoCall
    /\ cognitive_metrics = NewCognitiveMetrics
    /\ patterns = [scale \in TimeScale |-> <<>>]
    /\ resonances = <<>>
    /\ resonance_history = <<>>

NextMetrics ==
    \/ AnalyzeMemoryPatterns
    \/ AnalyzeExecutiveFunction
    \/ AnalyzeLanguagePatterns
    \/ AnalyzePerceptionAction
    \/ CalculateCognitiveLoad
    \/ CognitiveHandleKeyboardEvent

SpecMetrics == InitMetrics /\ [][NextMetrics]_vars

(***************************************************************************)
(* The properties of the metric extractors.                                *)
(***************************************************************************)
ExtractorKeys(fn) ==
    CASE fn = "memory" -> {"incorrect_folder_attempts", "repeated_access_count",
                           "save_frequency", "memory_score"}
      [] fn = "executive" -> {"task_switching_frequency", "multitasking_score",
                              "organization_efficiency", "executive_score"}
      [] fn = "language" -> {"typing_speed", "error_correction_rate",
                             "vocabulary_complexity", "language_score"}
      [] fn = "perception" -> {"mouse_precision", "click_accuracy",
                               "movement_smoothness", "perception_score"}
ScoreKey(fn) ==
    CASE fn = "memory" -> "memory_score"
      [] fn = "executive" -> "executive_score"
      [] fn = "language" -> "language_score"
      [] fn = "perception" -> "perception_score"
InUnit(x) == RLe(Zero, x) /\ RLe(x, One)
Extracted == call.fn \in Extractors /\ call.exc = "none"

\* C11 as stated: an extractor given the empty event list returns its
\* dictionary with every value zero.
C11_EmptyGivesZeros ==
    (call.fn \in Extractors /\ given = <<>>) =>
        /\ call.exc = "none"
        /\ DOMAIN call.ret = ExtractorKeys(call.fn)
        /\ \A k \in DOMAIN call.ret : call.ret[k] = Zero

C15_NeverRaises ==
    call.fn \in Extractors => call.exc = "none"

\* C20: an extractor returns, in every state of the tracker, what it returns
\* on a new tracker for the same events, and its call leaves the state of the
\* tracker as it was.
C20_SameAsOnNewTracker ==
    call.fn \in Extractors =>
        LET r == Extract(call.fn, NewCognitiveMetrics, given)
        IN call.exc = r.exc /\ (r.exc = "none" => call.ret = r.ret)

C20_Step ==
    call'.fn \in Extractors => UNCHANGED <<cognitive_metrics, tracker, now>>

C20_ExtractorsArePure == [](C20_SameAsOnNewTracker) /\ [][C20_Step]_vars

\* the language extractor has returned on a tracker that has handled a key
C20_Witness ==
    /\ call.fn = "language"
    /\ call.exc = "none"
    /\ cognitive_metrics # NewCognitiveMetrics
    /\ given # <<>>
    /\ call.ret.typing_speed # Zero

(***************************************************************************)
(* The classifiers: CognitivePatternAnalyzer._classify_micro_pattern       *)
(* (core/analysis/cognitive_patterns.py) and                               *)
(* CognitiveFieldAnalyzer._classify_resonance                              *)
(* (core/analysis/cognitive_resonance.py).                                 *)
(*                                                                         *)
(* Metric values are exact fractions; thresholds and weights are counted   *)
(* in hundredths.  A confidence is a Python float: [h |-> hundredths,      *)
(* ulp |-> units in the last place above the double nearest to that        *)
(* decimal].                                                               *)
(***************************************************************************)
Absent == -1000

Float(h) == [h |-> h, ulp |-> 0]
\* IEEE 754 double addition of a weight to a running sum, on the sums that
\* occur: the result is the double nearest to the decimal sum, except
\* 0.2 + 0.4 = 0.4 + 0.2 = 0.6000000000000001, and 0.6000000000000001 + 0.4 = 1.0
FloatAdd(a, w) ==
    IF a.ulp = 0 /\ ((a.h = 20 /\ w = 40) \/ (a.h = 40 /\ w = 20))
    THEN [h |-> 60, ulp |-> 1]
    ELSE [h |-> a.h + w, ulp |-> 0]
FloatLt(a, b) == a.h < b.h \/ (a.h = b.h /\ a.ulp < b.ulp)

\* x > c and x < c, for a metric x and a threshold of c hundredths
Gt(x, c) == RLt(R(c, 100), x)
Lt(x, c) == RLt(x, R(c, 100))

\* the rule sets of _classify_micro_pattern, in the order of the dict
MicroLabels == <<"flow_state", "learning_moment", "confusion_state">>
MicroMetrics == <<"typing_speed", "error_rate", "pause_ratio", "focus_switches">>

MicroCondition(label, metric, x) ==
    CASE label = "flow_state" ->
            (CASE metric = "typing_speed" -> Gt(x, 200)
               [] metric = "error_rate" -> Lt(x, 10)
               [] metric = "pause_ratio" -> Lt(x, 20)
               [] metric = "focus_switches" -> Lt(x, 200))
      [] label = "learning_moment" ->
            (CASE metric = "typing_speed" -> Gt(x, 50) /\ Lt(x, 200)
               [] metric = "error_rate" -> Gt(x, 10) /\ Lt(x, 30)
               [] metric = "pause_ratio" -> Gt(x, 20) /\ Lt(x, 40)
               [] metric = "focus_switches" -> Gt(x, 200) /\ Lt(x, 500))
      [] label = "confusion_state" ->
            (CASE metric = "typing_speed" -> Lt(x, 50)
               [] metric = "error_rate" -> Gt(x, 30)
               [] metric = "pause_ratio" -> Gt(x, 40)
               [] metric = "focus_switches" -> Gt(x, 500))

MicroWeight(label, metric) ==
    CASE label = "flow_state" ->
            (CASE metric = "typing_speed" -> 30
               [] metric = "error_rate" -> 20
               [] metric = "pause_ratio" -> 20
               [] metric = "focus_switches" -> 30)
      [] label = "learning_moment" ->
            (CASE metric = "typing_speed" -> 20
               [] metric = "error_rate" -> 30
               [] metric = "pause_ratio" -> 30
               [] metric = "focus_switches" -> 20)
      [] label = "confusion_state" ->
            (CASE metric = "typing_speed" -> 20
               [] metric = "error_rate" -> 30
               [] metric = "pause_ratio" -> 20
               [] metric = "focus_switches" -> 30)

\* the rule sets of _classify_resonance, in the order of the dict
ResonanceTypes == <<"LEARNING", "INSIGHT", "INTEGRATION", "INNOVATION">>
ResonanceMetrics == <<"load_trend", "focus_stability", "pattern_coherence", "emergence_potential">>

ResonanceCondition(label, metric, x) ==
    CASE label = "LEARNING" ->
            (CASE metric = "load_trend" -> Gt(x, 0)
               [] metric = "focus_stability" -> Lt(x, 50)
               [] metric = "pattern_coherence" -> Gt(x, 60)
               [] metric = "emergence_potential" -> Gt(x, 30) /\ Lt(x, 70))
      [] label = "INSIGHT" ->
            (CASE metric = "load_trend" -> Lt(x, 0)
               [] metric = "focus_stability" -> Gt(x, 70)
               [] metric = "pattern_coherence" -> Gt(x, 80)
               [] metric = "emergence_potential" -> Gt(x, 70))
      [] label = "INTEGRATION" ->
            (CASE metric = "load_trend" -> Gt(x, -20) /\ Lt(x, 20)
               [] metric = "focus_stability" -> Gt(x, 50)
               [] metric = "pattern_coherence" -> Gt(x, 40) /\ Lt(x, 80)
               [] metric = "emergence_potential" -> Gt(x, 40) /\ Lt(x, 80))
      [] label = "INNOVATION" ->
            (CASE metric = "load_trend" -> Gt(x, 20)
               [] metric = "focus_stability" -> Lt(x, 30)
               [] metric = "pattern_coherence" -> Lt(x, 50)
               [] metric = "emergence_potential" -> Gt(x, 80))

ResonanceWeight(label, metric) ==
    CASE label = "LEARNING" ->
            (CASE metric = "load_trend" -> 30
               [] metric = "focus_stability" -> 20
               [] metric = "pattern_coherence" -> 30
               [] metric = "emergence_potential" -> 20)
      [] label = "INSIGHT" ->
            (CASE metric = "load_trend" -> 20
               [] metric = "focus_stability" -> 30
               [] metric = "pattern_coherence" -> 20
               [] metric = "emergence_potential" -> 30)
      [] label = "INTEGRATION" -> 25
      [] label = "INNOVATION" ->
            (CASE metric = "emergence_potential" -> 40
               [] OTHER -> 20)

\* the rule sets of a classifier: kind is "micro" or "resonance"
Labels(kind) == IF kind = "micro" THEN MicroLabels ELSE ResonanceTypes
Names(kind) == IF kind = "micro" THEN MicroMetrics ELSE ResonanceMetrics
Condition(kind, label, metric, x) ==
    IF kind = "micro" THEN MicroCondition(label, metric, x)
    ELSE ResonanceCondition(label, metric, x)
Weight(kind, label, metric) ==
    IF kind = "micro" THEN MicroWeight(label, metric)
    ELSE ResonanceWeight(label, metric)

\* the conditions of a rule set that the metrics satisfy, as the loop over
\* config['conditions'] finds them
Satisfied(kind, label, metric, metrics) ==
    metric \in DOMAIN metrics /\ Condition(kind, label, metric, metrics[metric])

\* a slip: every metric that is present counts, satisfied or not
Confidence_ignores_conditions(kind, label, metrics, i, acc) ==
    Float(SeqSum([j \in 1..Len(Names(kind)) |->
                     IF Names(kind)[j] \in DOMAIN metrics
                     THEN Weight(kind, label, Names(kind)[j]) ELSE 0]))

\* confidence += weight, for the i-th metric of the rule set and those after
RECURSIVE Confidence(_, _, _, _, _)
Confidence(kind, label, metrics, i, acc) ==
    IF i > Len(Names(kind)) THEN acc
    ELSE Confidence(kind, label, metrics, i + 1,
                    IF Satisfied(kind, label, Names(kind)[i], metrics)
                    THEN FloatAdd(acc, Weight(kind, label, Names(kind)[i])) ELSE acc)

\* max(confidences.items(), key=lambda x: x[1]): the first of the greatest
FirstMax(confidences) ==
    CHOOSE i \in 1..Len(confidences) :
        /\ \A j \in 1..Len(confidences) : ~FloatLt(confidences[i], confidences[j])
        /\ \A j \in 1..(i - 1) : FloatLt(confidences[j], confidences[i])

Classify(kind, metrics) ==
    LET confidences == [l \in 1..Len(Labels(kind)) |->
                           Confidence(kind, Labels(kind)[l], metrics, 1, Float(0))]
        best == FirstMax(confidences)
    IN [label |-> Labels(kind)[best], confidence |-> confidences[best]]

\* _classify_micro_pattern
classify_micro_pattern(metrics) == Classify("micro", metrics)

\* _classify_resonance
classify_resonance(metrics) == Classify("resonance", metrics)

\* a dict of the four metrics named, their values given in hundredths,
\* without the keys whose value is Absent
MetricsDict(names, v1, v2, v3, v4) ==
    LET vals == <<v1, v2, v3, v4>>
    IN [k \in {names[i] : i \in {j \in 1..4 : vals[j] # Absent}} |->
           R(vals[CHOOSE i \in 1..4 : names[i] = k], 100)]

\* values on, below and above the thresholds of the rules
MicroMetricsDicts ==
    {MetricsDict(MicroMetrics, a, b, c, d) :
        a \in {Absent, 25, 50, 100, 200, 300}, b \in {Absent, 5, 10, 20, 30, 40},
        c \in {Absent, 10, 20, 30, 40, 50}, d \in {Absent, 100, 200, 300, 500, 600}}

ResonanceMetricsDicts ==
    {MetricsDict(ResonanceMetrics, a, b, c, d) :
        a \in {Absent, -30, -10, 0, 10, 20, 30}, b \in {Absent, 20, 30, 40, 50, 60, 70, 80},
        c \in {Absent, 40, 50, 60, 70, 80, 90}, d \in {Absent, 30, 40, 50, 70, 80, 90}}

Classified(fn, r) ==
    /\ call' = [fn |-> fn, exc |-> "none", ret |-> r]
    /\ UNCHANGED <<cognitive_metrics, now>>
    /\ AnalysisFrame

ClassifyMicroPattern == Classified("classify_micro", classify_micro_pattern(given))
ClassifyResonance == Classified("classify_resonance", classify_resonance(given))

InitClassify ==
    /\ limits = Hooks
    /\ Construct
    /\ WorkersIdle
    /\ given \in MicroMetricsDicts \cup ResonanceMetricsDicts
    /\ call = NoCall
    /\ cognitive_metrics = NewCognitiveMetrics
    /\ patterns = [scale \in TimeScale |-> <<>>]
    /\ resonances = <<>>
    /\ resonance_history = <<>>

NextClassify == ClassifyMicroPattern \/ ClassifyResonance

SpecClassify == InitClassify /\ [][NextClassify]_vars

\* the weights of the conditions of a rule set the metrics satisfy, summed
\* in exact arithmetic
WeightSum(kind, label, metrics) ==
    SeqSum([j \in 1..Len(Names(kind)) |->
               IF Satisfied(kind, label, Names(kind)[j], metrics)
               THEN Weight(kind, label, Names(kind)[j]) ELSE 0])
MicroSum(label) == WeightSum("micro", label, given)
ResonanceSum(label) == WeightSum("resonance", label, given)
Range(q) == {q[i] : i \in 1..Len(q)}
IndexOf(q, x) == CHOOSE i \in 1..Len(q) : q[i] = x

\* C13: _classify_micro_pattern returns a label whose weight sum is the
\* greatest of the three rule sets, with that sum as confidence; the
\* confidence is in [0, 1]; the result is a function of the metrics alone.
C13_MicroClassification ==
    call.fn = "classify_micro" =>
        /\ call.ret.label \in Range(MicroLabels)
        /\ call.ret.confidence = Float(MicroSum(call.ret.label))
        /\ \A l \in Range(MicroLabels) : MicroSum(l) <= MicroSum(call.ret.label)
        /\ 0 <= call.ret.confidence.h /\ call.ret.confidence.h <= 100
        /\ call.ret = classify_micro_pattern(given)

\* a learning moment found with some, not all, of its conditions satisfied
C13_Witness ==
    /\ call.fn = "classify_micro"
    /\ call.ret.label = "learning_moment"
    /\ call.ret.confidence = Float(80)
    /\ MicroSum("flow_state") = 30

\* C14 as stated: when several rule sets have the same greatest weight sum,
\* both classifiers return the one that comes first in the rule dictionary.
C14_TieGivesFirst ==
    /\ call.fn = "classify_micro" =>
          \A l \in Range(MicroLabels) :
              (\A m \in Range(MicroLabels) : MicroSum(m) <= MicroSum(l))
                  => IndexOf(MicroLabels, call.ret.label) <= IndexOf(MicroLabels, l)
    /\ call.fn = "classify_resonance" =>
          \A l \in Range(ResonanceTypes) :
              (\A m \in Range(ResonanceTypes) : ResonanceSum(m) <= ResonanceSum(l))
                  => IndexOf(ResonanceTypes, call.ret.label) <= IndexOf(ResonanceTypes, l)

(***************************************************************************)
(* The pattern analyzer: CognitivePatternAnalyzer of                       *)
(* core/analysis/cognitive_patterns.py.  Event timestamps are floats, as   *)
(* time.time() gives them; here whole seconds.                             *)
(***************************************************************************)
\* the longest event list given to analyze_micro_patterns
MaxWindowEvents == 4

MICRO_WINDOW == 60
MESO_WINDOW == 3600
MACRO_WINDOW == 86400

Analyzed(ret) == [exc |-> "none", ret |-> ret]
Failed(exc) == [exc |-> exc, ret |-> <<>>]

\* _analyze_typing_pattern
analyze_typing_pattern(evs) ==
    IF evs = <<>>
    THEN Analyzed([typing_speed |-> Zero, error_rate |-> Zero, pause_ratio |-> Zero])
    ELSE IF \E i \in 1..Len(evs) : "event_type" \notin DOMAIN evs[i] \/ "key" \notin DOMAIN evs[i]
    THEN Failed("KeyError")
    ELSE LET char_count == Cardinality({i \in 1..Len(evs) : evs[i].event_type = "down"})
             duration == evs[Len(evs)].timestamp - evs[1].timestamp
             n_errors == Cardinality({i \in 1..Len(evs) : evs[i].key \in {"backspace", "delete"}})
             pauses == SeqSum([i \in 1..(Len(evs) - 1) |->
                                 IF evs[i + 1].timestamp - evs[i].timestamp > 1
                                 THEN evs[i + 1].timestamp - evs[i].timestamp ELSE 0])
         IN Analyzed([typing_speed |-> IF duration > 0 THEN R(char_count, duration) ELSE Zero,
                      error_rate |-> IF char_count > 0 THEN R(n_errors, char_count) ELSE Zero,
                      pause_ratio |-> IF duration > 0 THEN R(pauses, duration) ELSE Zero])

\* _analyze_focus_pattern: the loop over window_changes + [len(events)] ends
\* by reading events[len(events)], one past the last event
analyze_focus_pattern(evs) ==
    IF evs = <<>>
    THEN Analyzed([focus_switches |-> Zero, avg_focus_duration |-> Zero])
    ELSE Failed("IndexError")

\* the CognitivePattern _analyze_micro_window returns
MicroPattern(evs, metrics, class) ==
    [scale |-> "micro",
     start_time |-> SeqMin([i \in 1..Len(evs) |-> evs[i].timestamp]),
     end_time |-> SeqMax([i \in 1..Len(evs) |-> evs[i].timestamp]),
     pattern_type |-> class.label,
     confidence |-> class.confidence,
     metrics |-> metrics,
     context |-> EmptyDict]

ClassifiedWindow(evs, metrics) ==
    Analyzed(MicroPattern(evs, metrics, classify_micro_pattern(metrics)))

\* metrics = {**typing_metrics, **focus_metrics}, unless one of the two
\* raised
MeasuredWindow(evs, typing, focus) ==
    IF typing.exc # "none" THEN typing
    ELSE IF focus.exc # "none" THEN focus
    ELSE ClassifiedWindow(evs, DictMerge(typing.ret, focus.ret))

\* _analyze_micro_window, for a window that is not empty
analyze_micro_window(evs) ==
    IF \E i \in 1..Len(evs) : "type" \notin DOMAIN evs[i]
    THEN Failed("KeyError")
    ELSE MeasuredWindow(evs,
                        analyze_typing_pattern(OfType(evs, "keyboard")),
                        analyze_focus_pattern(
                            SelectSeq(evs, LAMBDA e : e.type \in {"mouse", "window"})))

\* a slip: the window that is open when the events end is analyzed too
RECURSIVE analyze_micro_patterns_closes_last(_, _, _, _)
analyze_micro_patterns_closes_last(evs, i, current_window, pats) ==
    IF i > Len(evs)
    THEN IF current_window = <<>> THEN Analyzed(pats)
         ELSE LET w == analyze_micro_window(current_window)
              IN IF w.exc # "none" THEN w ELSE Analyzed(Append(pats, w.ret))
    ELSE IF "timestamp" \notin DOMAIN evs[i] THEN Failed("KeyError")
    ELSE IF i > 1 /\ evs[i].timestamp - evs[i - 1].timestamp > MICRO_WINDOW
    THEN LET w == analyze_micro_window(current_window)
         IN IF w.exc # "none" THEN w
            ELSE analyze_micro_patterns_closes_last(evs, i + 1, <<evs[i]>>,
                                                    Append(pats, w.ret))
    ELSE analyze_micro_patterns_closes_last(evs, i + 1, Append(current_window, evs[i]), pats)

\* analyze_micro_patterns: the loop from the i-th event on, with the window
\* and the patterns collected so far.  A window is closed by an event more
\* than a minute after the event before it; the window that is open when
\* the events end is not analyzed.
RECURSIVE analyze_micro_patterns(_, _, _, _)
analyze_micro_patterns(evs, i, current_window, pats) ==
    IF i > Len(evs) THEN Analyzed(pats)
    ELSE IF "timestamp" \notin DOMAIN evs[i] THEN Failed("KeyError")
    ELSE IF i > 1 /\ evs[i].timestamp - evs[i - 1].timestamp > MICRO_WINDOW
    THEN LET w == analyze_micro_window(current_window)
         IN IF w.exc # "none" THEN w
            ELSE analyze_micro_patterns(evs, i + 1, <<evs[i]>>, Append(pats, w.ret))
    ELSE analyze_micro_patterns(evs, i + 1, Append(current_window, evs[i]), pats)

\* analyze_meso_patterns / analyze_macro_patterns: the same loop over the
\* start times of patterns.  A closed window is given to
\* self._analyze_meso_window / self._analyze_macro_window, methods the class
\* does not have: AttributeError.
RECURSIVE analyze_larger_patterns(_, _, _)
analyze_larger_patterns(pats, window_size, i) ==
    IF i > Len(pats) THEN Analyzed(<<>>)
    ELSE IF i > 1 /\ pats[i].start_time - pats[i - 1].start_time > window_size
    THEN Failed("AttributeError")
    ELSE analyze_larger_patterns(pats, window_size, i + 1)

analyze_meso_patterns(micro_patterns) == analyze_larger_patterns(micro_patterns, MESO_WINDOW, 1)
analyze_macro_patterns(meso_patterns) == analyze_larger_patterns(meso_patterns, MACRO_WINDOW, 1)

Key(t, key) == [timestamp |-> t, type |-> "keyboard", key |-> key, event_type |-> "down"]

\* keyboard events as the tracker logs them, a mouse event, an event
\* without a type
AnalyzerEvents ==
    {Key(0, "a"), Key(1, "backspace"), Key(50, "b"), Key(100, "a"), Key(170, "a"),
     Key(4000, "a"), Key(4100, "b"),
     [timestamp |-> 120, type |-> "mouse", event_type |-> "down"],
     [timestamp |-> 200]}

AnalyzeMicroPatterns ==
    /\ \A i \in 1..Len(given) : "timestamp" \in DOMAIN given[i]
    /\ LET r == analyze_micro_patterns(given, 1, <<>>, <<>>)
       IN call' = [fn |-> "analyze_micro_patterns", exc |-> r.exc, ret |-> r.ret]
    /\ UNCHANGED <<cognitive_metrics, now>>
    /\ AnalysisFrame

\* the larger scales, on the patterns the last call returned
AnalyzeMesoPatterns ==
    /\ call.fn = "analyze_micro_patterns"
    /\ call.exc = "none"
    /\ LET r == analyze_meso_patterns(call.ret)
       IN call' = [fn |-> "analyze_meso_patterns", exc |-> r.exc, ret |-> r.ret]
    /\ UNCHANGED <<cognitive_metrics, now>>
    /\ AnalysisFrame

AnalyzeMacroPatterns ==
    /\ call.fn = "analyze_meso_patterns"
    /\ call.exc = "none"
    /\ LET r == analyze_macro_patterns(call.ret)
       IN call' = [fn |-> "analyze_macro_patterns", exc |-> r.exc, ret |-> r.ret]
    /\ UNCHANGED <<cognitive_metrics, now>>
    /\ AnalysisFrame

InitWindows ==
    /\ limits = Hooks
    /\ Construct
    /\ WorkersIdle
    /\ given \in Lists(AnalyzerEvents, MaxWindowEvents)
    /\ call = NoCall
    /\ cognitive_metrics = NewCognitiveMetrics
    /\ patterns = [scale \in TimeScale |-> <<>>]
    /\ resonances = <<>>
    /\ resonance_history = <<>>

NextWindows == AnalyzeMicroPatterns \/ AnalyzeMesoPatterns \/ AnalyzeMacroPatterns

SpecWindows == InitWindows /\ [][NextWindows]_vars

\* C16 as stated, for analyze_micro_patterns: every returned pattern spans
\* at most one minute, and every event of the input lies in the window of
\* one returned pattern.
C16_FixedWindows ==
    (call.fn = "analyze_micro_patterns" /\ call.exc = "none") =>
        /\ \A k \in 1..Len(call.ret) :
              call.ret[k].end_time - call.ret[k].start_time <= MICRO_WINDOW
        /\ \A i \in 1..Len(given) :
              \E k \in 1..Len(call.ret) :
                  /\ call.ret[k].start_time <= given[i].timestamp
                  /\ given[i].timestamp <= call.ret[k].end_time

(***************************************************************************)
(* Resonance detection: CognitiveFieldAnalyzer of                          *)
(* core/analysis/cognitive_resonance.py.  Square roots and logarithms are  *)
(* cut to hundredths; every other quantity is exact.                       *)
(***************************************************************************)
HISTORY_WINDOW == 10
RESONANCE_THRESHOLD == 60

RMul(a, b) == R(a.n * b.n, a.d * b.d)
RMean(q) == RDiv(RSum(q), RInt(Len(q)))

\* the square root of a fraction, cut to hundredths (to units from 100 on)
RSqrt(v) ==
    IF v.n = 0 THEN Zero
    ELSE IF v.n < 100 * v.d THEN R(ISqrt((v.n * 10000) \div v.d), 100)
    ELSE RInt(ISqrt(v.n \div v.d))

\* np.std: the population standard deviation
RStd(q) ==
    LET mean == RMean(q)
        dev(i) == RSub(q[i], mean)
    IN RSqrt(RMean([i \in 1..Len(q) |-> RMul(dev(i), dev(i))]))

\* sorted(patterns, key=lambda p: p.start_time): stable
RECURSIVE SortedByStart(_)
SortedByStart(pats) ==
    IF pats = <<>> THEN <<>>
    ELSE LET rest == SortedByStart(Tail(pats))
             before == SelectSeq(rest, LAMBDA p : p.start_time < Head(pats).start_time)
             after == SelectSeq(rest, LAMBDA p : p.start_time >= Head(pats).start_time)
         IN before \o <<Head(pats)>> \o after

PatternTypes(pats) == [i \in 1..Len(pats) |-> pats[i].pattern_type]

\* _calculate_pattern_diversity
calculate_pattern_diversity(pats) ==
    IF pats = <<>> THEN Zero ELSE R(Cardinality(Range(PatternTypes(pats))), Len(pats))

\* _calculate_interaction_complexity: the entropy of the transitions
\* between pattern types over log2 of the number of distinct transitions.
\* One distinct transition: max_entropy = 0 and the result is 0; equally
\* frequent transitions: 1.  Five minutes of events hold at most four
\* closed windows, so the one case left is two transitions seen twice and
\* once: 0.918...
calculate_interaction_complexity(pats) ==
    IF Len(pats) < 2 THEN Zero
    ELSE LET types == PatternTypes(pats)
             steps == 1..(Len(pats) - 1)
             transitions == {<<types[i], types[i + 1]>> : i \in steps}
             count(t) == Cardinality({i \in steps : <<types[i], types[i + 1]>> = t})
         IN IF Cardinality(transitions) = 1 THEN Zero
            ELSE IF \A t, u \in transitions : count(t) = count(u) THEN One
            ELSE R(91, 100)

\* _calculate_stability_metrics
calculate_stability_metrics(pats) ==
    IF pats = <<>> THEN Zero
    ELSE LET stability(metric) ==
                 RDiv(One, RAdd(One, RStd([i \in 1..Len(pats) |->
                                              Get(pats[i].metrics, metric, Zero)])))
         IN RMean(<<stability("typing_speed"), stability("error_rate"),
                    stability("focus_switches")>>)

\* _levenshtein_distance
RECURSIVE levenshtein_distance(_, _)
levenshtein_distance(seq1, seq2) ==
    IF seq1 = <<>> THEN Len(seq2)
    ELSE IF seq2 = <<>> THEN Len(seq1)
    ELSE IF Head(seq1) = Head(seq2) THEN levenshtein_distance(Tail(seq1), Tail(seq2))
    ELSE 1 + Min(levenshtein_distance(Tail(seq1), Tail(seq2)),
                 Min(levenshtein_distance(Tail(seq1), seq2),
                     levenshtein_distance(seq1, Tail(seq2))))

\* _pattern_sequence_similarity
pattern_sequence_similarity(patterns1, patterns2) ==
    LET types1 == PatternTypes(patterns1)
        types2 == PatternTypes(patterns2)
        max_length == Max(Len(types1), Len(types2))
    IN RSub(One, IF max_length > 0
                 THEN R(levenshtein_distance(types1, types2), max_length)
                 ELSE Zero)

\* history[-n:]
LastN(q, n) == IF Len(q) <= n THEN q ELSE SubSeq(q, Len(q) - n + 1, Len(q))

RECURSIVE RSeqMax(_)
RSeqMax(q) == IF Len(q) = 1 THEN q[1] ELSE RMax(Head(q), RSeqMax(Tail(q)))

\* _calculate_novelty_score, history being self.resonance_history
calculate_novelty_score(history, pats) ==
    IF pats = <<>> THEN Zero
    ELSE IF history = <<>> THEN One
    ELSE LET recent == LastN(history, HISTORY_WINDOW)
         IN RSub(One, RSeqMax([k \in 1..Len(recent) |->
                                  pattern_sequence_similarity(pats, recent[k].patterns)]))

\* _calculate_emergence_potential
calculate_emergence_potential(history, pats) ==
    IF pats = <<>> THEN Zero
    ELSE RSum(<<RMul(calculate_pattern_diversity(pats), R(3, 10)),
                RMul(calculate_interaction_complexity(pats), R(2, 10)),
                RMul(calculate_stability_metrics(pats), R(2, 10)),
                RMul(calculate_novelty_score(history, pats), R(3, 10))>>)

\* np.polyfit(times, loads, 1)[0]: the slope of the least-squares line
\* (the times of the patterns of one analysis differ)
Slope(times, loads) ==
    LET n == Len(times)
        sx == RInt(SeqSum(times))
        sy == RSum(loads)
        sxy == RSum([i \in 1..n |-> RMul(RInt(times[i]), loads[i])])
        sxx == RInt(SeqSum([i \in 1..n |-> times[i] * times[i]]))
        det == RSub(RMul(RInt(n), sxx), RMul(sx, sx))
    IN IF det.n = 0 THEN Zero
       ELSE RDiv(RSub(RMul(RInt(n), sxy), RMul(sx, sy)), det)

\* _calculate_resonance_metrics
calculate_resonance_metrics(history, pats) ==
    LET n == Len(pats)
        times == [i \in 1..n |-> pats[i].start_time - pats[1].start_time]
        loads == [i \in 1..n |-> Get(pats[i].metrics, "cognitive_load", Zero)]
        intervals == [i \in 1..(n - 1) |-> RInt(times[i + 1] - times[i])]
    IN [load_trend |-> IF n > 1 THEN Slope(times, loads) ELSE Zero,
        focus_stability |-> RStd([i \in 1..n |->
                                     Get(pats[i].metrics, "avg_focus_duration", Zero)]),
        pattern_coherence |-> R(Cardinality(Range(PatternTypes(pats))), n),
        rhythm_regularity |-> IF n > 1 THEN RDiv(One, RAdd(One, RStd(intervals))) ELSE Zero,
        emergence_potential |-> calculate_emergence_potential(history, pats)]

\* _merge_contexts: the last context, with the keys it lacks taken from
\* the nearest older context that has them
RECURSIVE merge_contexts(_)
merge_contexts(contexts) ==
    IF contexts = <<>> THEN EmptyDict
    ELSE LET older == merge_contexts(SubSeq(contexts, 1, Len(contexts) - 1))
             newest == contexts[Len(contexts)]
         IN [k \in DOMAIN newest \cup DOMAIN older |->
                IF k \in DOMAIN newest THEN newest[k] ELSE older[k]]

NoResonance == [found |-> FALSE]

\* the end of detect_resonance: the resonance, if the strength is above
\* the threshold
Resonance(sorted, metrics, class) ==
    IF FloatLt(Float(RESONANCE_THRESHOLD), class.confidence)
    THEN [found |-> TRUE,
          type |-> class.label,
          strength |-> class.confidence,
          duration |-> sorted[Len(sorted)].end_time - sorted[1].start_time,
          patterns |-> sorted,
          emergence_metrics |-> metrics,
          context |-> merge_contexts([i \in 1..Len(sorted) |-> sorted[i].context])]
    ELSE NoResonance

Classified_resonance(sorted, metrics) == Resonance(sorted, metrics, classify_resonance(metrics))

Measured_resonance(history, sorted) ==
    Classified_resonance(sorted, calculate_resonance_metrics(history, sorted))

\* detect_resonance: sort, measure, classify.  self.resonance_history is
\* read by the novelty score and written nowhere.
detect_resonance(history, pats) ==
    IF Len(pats) < 2 THEN NoResonance
    ELSE Measured_resonance(history, SortedByStart(pats))

(***************************************************************************)
(* The analysis loops of CognitiveFieldSystem (core/cognitive_field_       *)
(* system.py).  given is the interaction log as the tracker writes it;     *)
(* each element of resonances is a detected resonance together with the    *)
(* time of its line in resonance_log.jsonl, which lies in the same         *)
(* directory and is read back as events.                                   *)
(***************************************************************************)
\* the longest interaction log
MaxLogEvents == 3
\* the last moment an iteration begins
MaxFieldTime == 1900
\* the most patterns an iteration of the micro loop may leave
MaxPatterns == 4

RECENT_EVENTS == 300
MICRO_MAX_AGE == 1800
MESO_MAX_AGE == 14400
MACRO_MAX_AGE == 604800
MICRO_SLEEP == 1
MESO_SLEEP == 60
MACRO_SLEEP == 300

\* how long an iteration and the sleep after it take together: no less
\* than the sleep
MicroSleeps == {d \in {100, MICRO_MAX_AGE} : d >= MICRO_SLEEP}
MesoSleeps == {d \in {100} : d >= MESO_SLEEP}
MacroSleeps == {d \in {300} : d >= MACRO_SLEEP}
\* the ages a direct call of _prune_patterns is given
PruneAges == {100, MICRO_MAX_AGE}

\* _log_resonance: the line written at time t
ResonanceLine(r, t) ==
    [timestamp |-> t, type |-> r.type, strength |-> r.strength, duration |-> r.duration,
     emergence_metrics |-> r.emergence_metrics, context |-> r.context]

\* sorted(events, key=lambda x: x['timestamp']): stable
RECURSIVE SortedByTimestamp(_)
SortedByTimestamp(evs) ==
    IF evs = <<>> THEN <<>>
    ELSE LET rest == SortedByTimestamp(Tail(evs))
             before == SelectSeq(rest, LAMBDA e : e.timestamp < Head(evs).timestamp)
             after == SelectSeq(rest, LAMBDA e : e.timestamp >= Head(evs).timestamp)
         IN before \o <<Head(evs)>> \o after

\* _read_recent_events at time t: the lines of the interaction log that
\* the tracker has written by then, and those of resonance_log.jsonl, not
\* older than the timeframe
read_recent_events(log, logged, t, timeframe) ==
    LET lines == SelectSeq(log, LAMBDA e : e.timestamp <= t) \o [k \in 1..Len(logged) |->
                            ResonanceLine(logged[k].resonance, logged[k].logged)]
    IN SortedByTimestamp(SelectSeq(lines, LAMBDA e : e.timestamp >= t - timeframe))

\* a slip: patterns no older than max_age are dropped at the bound
prune_patterns_strict(pats, scale, max_age, t) ==
    [pats EXCEPT ![scale] = SelectSeq(pats[scale], LAMBDA p : p.end_time > t - max_age)]

\* _prune_patterns at time t
prune_patterns(pats, scale, max_age, t) ==
    [pats EXCEPT ![scale] = SelectSeq(pats[scale], LAMBDA p : p.end_time >= t - max_age)]

\* the end of the try of an analysis loop: extend, append and log the
\* resonance if one was detected, prune
Extended(scale, max_age, new_patterns, resonance, t) ==
    [patterns |-> prune_patterns(
                      [patterns EXCEPT ![scale] = patterns[scale] \o new_patterns],
                      scale, max_age, t),
     resonances |-> IF resonance.found
                    THEN Append(resonances, [resonance |-> resonance, logged |-> t])
                    ELSE resonances,
     found |-> resonance.found]

\* the body of the try of an analysis loop, given what the analyzer made
\* of its input.  An exception of the analyzer leaves the body before any
\* of it.
analysis_iteration(scale, max_age, analyzed, t) ==
    IF analyzed.exc # "none"
    THEN [patterns |-> patterns, resonances |-> resonances, found |-> FALSE]
    ELSE Extended(scale, max_age, analyzed.ret,
                  IF analyzed.ret # <<>>
                  THEN detect_resonance(resonance_history, analyzed.ret)
                  ELSE NoResonance,
                  t)

\* what an iteration leaves: the state, and to be seen the patterns the
\* analyzer returned, whether a resonance was found, how many had been
\* found before, and the novelty score where detect_resonance came to
\* compute it
Iterated(fn, analyzed, it) ==
    /\ Len(it.patterns["micro"]) <= MaxPatterns
    /\ patterns' = it.patterns
    /\ resonances' = it.resonances
    /\ LET scored == analyzed.exc = "none" /\ Len(analyzed.ret) >= 2
       IN call' = [fn |-> fn, exc |-> analyzed.exc, ret |-> analyzed.ret,
                   found |-> it.found, prior |-> Len(resonances), scored |-> scored,
                   novelty |-> IF scored
                               THEN calculate_novelty_score(resonance_history,
                                                            SortedByStart(analyzed.ret))
                               ELSE Zero]

Iteration(fn, scale, max_age, analyzed) ==
    Iterated(fn, analyzed, analysis_iteration(scale, max_age, analyzed, now))

FieldFrame ==
    UNCHANGED <<tracker, workers, given, cognitive_metrics, resonance_history>>

\* one iteration of _run_micro_analysis and the sleep after it
RunMicroAnalysis ==
    /\ now <= MaxFieldTime
    /\ Iteration("run_micro_analysis", "micro", MICRO_MAX_AGE,
                 analyze_micro_patterns(
                     read_recent_events(given, resonances, now, RECENT_EVENTS),
                     1, <<>>, <<>>))
    /\ \E d \in MicroSleeps : now' = now + d
    /\ FieldFrame

\* one iteration of _run_meso_analysis and the sleep after it
RunMesoAnalysis ==
    /\ now <= MaxFieldTime
    /\ Iteration("run_meso_analysis", "meso", MESO_MAX_AGE,
                 analyze_meso_patterns(patterns["micro"]))
    /\ \E d \in MesoSleeps : now' = now + d
    /\ FieldFrame

\* one iteration of _run_macro_analysis and the sleep after it
RunMacroAnalysis ==
    /\ now <= MaxFieldTime
    /\ Iteration("run_macro_analysis", "macro", MACRO_MAX_AGE,
                 analyze_macro_patterns(patterns["meso"]))
    /\ \E d \in MacroSleeps : now' = now + d
    /\ FieldFrame

\* _prune_patterns(scale, max_age), called by itself
PrunePatterns ==
    \E scale \in TimeScale, max_age \in PruneAges :
        /\ patterns' = prune_patterns(patterns, scale, max_age, now)
        /\ call' = [fn |-> "prune_patterns", exc |-> "none",
                    ret |-> [scale |-> scale, max_age |-> max_age,
                             before |-> Len(patterns[scale])]]
        /\ UNCHANGED <<now, resonances>>
        /\ FieldFrame

\* keyboard events at their times, and a mouse event
LogEvents == {Key(0, "a"), Key(100, "a"), Key(200, "a"),
              [timestamp |-> 50, type |-> "mouse", event_type |-> "down"]}

\* the logs the tracker writes while the loops run: the events in the
\* order of their times
Logs == {log \in Lists(LogEvents, MaxLogEvents) :
            \A i \in 1..(Len(log) - 1) : log[i].timestamp < log[i + 1].timestamp}

InitField ==
    /\ limits = Hooks
    /\ Construct
    /\ WorkersIdle
    /\ given \in Logs
    /\ call = NoCall
    /\ cognitive_metrics = NewCognitiveMetrics
    /\ patterns = [scale \in TimeScale |-> <<>>]
    /\ resonances = <<>>
    /\ resonance_history = <<>>

NextField == RunMicroAnalysis \/ RunMesoAnalysis \/ RunMacroAnalysis \/ PrunePatterns

SpecField == InitField /\ [][NextField]_vars

\* C17 as stated: patterns[MICRO] never holds the pattern of one window of
\* logged events twice.
C17_ProducedOnce ==
    \A i, j \in 1..Len(patterns["micro"]) :
        i # j => patterns["micro"][i] # patterns["micro"][j]

KeptByAge(pats, cutoff) == SelectSeq(pats, LAMBDA p : p.end_time >= cutoff)

\* C18: a call of _prune_patterns(scale, max_age) at time now leaves in
\* patterns[scale] exactly the patterns with end_time >= now - max_age, in
\* their order, and leaves the other scales as they were; the iteration of
\* the micro loop that completes leaves no micro pattern older than 30
\* minutes and does not touch the other scales.
C18_Step ==
    /\ call'.fn = "prune_patterns" =>
          LET scale == call'.ret.scale
              cutoff == now - call'.ret.max_age
          IN /\ \A i \in 1..Len(patterns'[scale]) : patterns'[scale][i].end_time >= cutoff
             /\ patterns'[scale] = KeptByAge(patterns[scale], cutoff)
             /\ \A other \in TimeScale \ {scale} : patterns'[other] = patterns[other]
    /\ (call'.fn = "run_micro_analysis" /\ call'.exc = "none") =>
          /\ \A i \in 1..Len(patterns'["micro"]) :
                patterns'["micro"][i].end_time >= now - MICRO_MAX_AGE
          /\ LET kept == KeptByAge(patterns["micro"], now - MICRO_MAX_AGE)
             IN /\ Len(patterns'["micro"]) >= Len(kept)
                /\ \A i \in 1..Len(kept) : patterns'["micro"][i] = kept[i]
          /\ patterns'["meso"] = patterns["meso"]
          /\ patterns'["macro"] = patterns["macro"]

C18_PrunedByAge == [][C18_Step]_vars

\* a call that removed a pattern and kept one whose end_time is exactly
\* now - max_age
C18_Witness ==
    /\ call.fn = "prune_patterns"
    /\ call.ret.before > Len(patterns[call.ret.scale])
    /\ \E i \in 1..Len(patterns[call.ret.scale]) :
          patterns[call.ret.scale][i].end_time = now - call.ret.max_age

\* the resonances detected before the last iteration
DetectedBefore == [k \in 1..call.prior |-> resonances[k].resonance]

\* C19 as stated: the novelty score of a detection is 1 only when no
\* resonance has been detected before, and else 1 minus the greatest
\* similarity to the pattern types of the last 10 detected resonances.
C19_NoveltyAgainstDetected ==
    (call.fn = "run_micro_analysis" /\ call.scored) =>
        call.novelty = calculate_novelty_score(DetectedBefore, SortedByStart(call.ret))

(***************************************************************************)
(* The tracker threads of core/monitoring/tracker_manager.py: BaseTracker  *)
(* is a threading.Thread with a queue and a running flag.  The thread is   *)
(* "new" until Thread.start(), "started" until run() has set the flag,     *)
(* then at the "top" of its while loop or in its "body", then "exited".    *)
(* The steps of the thread interleave with put() and stop() on the         *)
(* caller's thread.                                                        *)
(***************************************************************************)
\* events put on the queue in one behaviour
MaxQueued == 3

\* a dict event, an event that is no dict, an event whose processing raises
EventKinds == {"dict", "other", "raising"}

BaseTracker ==
    [running |-> running, queue |-> queue, thread |-> thread,
     activity_count |-> activity_count, processed |-> processed, stopped |-> stopped]

\* InteractionTracker.process_event: counts the dict events
process_event(count, event) ==
    CASE event.kind = "dict" -> [activity_count |-> count + 1, raised |-> FALSE]
      [] event.kind = "other" -> [activity_count |-> count, raised |-> FALSE]
      [] OTHER -> [activity_count |-> count, raised |-> TRUE]

\* run(), line 32: the flag is set by the thread itself
run_begin(s) == [s EXCEPT !.running = TRUE, !.thread = "top"]

\* the test of the while loop
run_test(s) == [s EXCEPT !.thread = IF s.running THEN "body" ELSE "exited"]

\* a slip: an exception of process_event ends the thread
run_body_stops_on_error(s) ==
    IF s.queue = <<>>
    THEN [s EXCEPT !.thread = "top"]
    ELSE LET event == Head(s.queue)
             r == process_event(s.activity_count, event)
         IN [s EXCEPT !.queue = Tail(@),
                      !.activity_count = r.activity_count,
                      !.processed = Append(@, event),
                      !.running = IF r.raised THEN FALSE ELSE @,
                      !.thread = IF r.raised THEN "exited" ELSE "top"]

\* the body of the while loop: queue.get(timeout=1.0), which takes the
\* oldest event or gives up on an empty queue; process_event; an exception
\* is logged, and the loop goes on after a sleep
run_body(s) ==
    IF s.queue = <<>>
    THEN [s EXCEPT !.thread = "top"]
    ELSE LET event == Head(s.queue)
             r == process_event(s.activity_count, event)
         IN [s EXCEPT !.queue = Tail(@),
                      !.activity_count = r.activity_count,
                      !.processed = Append(@, event),
                      !.thread = "top"]

\* stop(): the flag is cleared; join(timeout=5.0) waits and changes nothing
base_stop(s) == [s EXCEPT !.running = FALSE, !.stopped = TRUE]

InstallWorker(s) ==
    /\ running' = s.running
    /\ queue' = s.queue
    /\ thread' = s.thread
    /\ activity_count' = s.activity_count
    /\ processed' = s.processed
    /\ stopped' = s.stopped
    /\ UNCHANGED <<tracker, analysis, now, flusher>>

\* Thread.start(): it returns when the thread exists, before run() has run
ThreadStart ==
    /\ thread = "new"
    /\ InstallWorker([BaseTracker EXCEPT !.thread = "started"])

RunBegin ==
    /\ thread = "started"
    /\ InstallWorker(run_begin(BaseTracker))

LoopTest ==
    /\ thread = "top"
    /\ InstallWorker(run_test(BaseTracker))

LoopBody ==
    /\ thread = "body"
    /\ InstallWorker(run_body(BaseTracker))

\* tracker.queue.put(event); the events are numbered as they are put
Put ==
    /\ Len(processed) + Len(queue) < MaxQueued
    /\ \E kind \in EventKinds :
          InstallWorker([BaseTracker EXCEPT !.queue =
              Append(@, [id |-> Len(processed) + Len(queue) + 1, kind |-> kind])])

BaseStop == InstallWorker(base_stop(BaseTracker))

InitThread ==
    /\ limits = Hooks
    /\ Construct
    /\ WorkersIdle
    /\ AnalysisIdle

NextThread == ThreadStart \/ RunBegin \/ LoopTest \/ LoopBody \/ Put \/ BaseStop

SpecThread == InitThread /\ [][NextThread]_vars

\* C21 as stated: once stop() has set running to false, the thread leaves
\* the top of its loop only by exiting.
C21_Step == (stopped /\ thread = "top" /\ thread' # "top") => thread' = "exited"

C21_StopCancels == [][C21_Step]_vars

\* C26: the events processed and the events waiting are, in this order, the
\* events put, in the order they were put and each once; a pass through the
\* loop body with an event waiting hands the oldest to process_event, and,
\* raising or not, leaves the thread in its loop and the flag as it was.
C26_InPutOrder ==
    LET all == processed \o queue
    IN \A i \in 1..Len(all) : all[i].id = i

C26_Step ==
    (thread = "body" /\ thread' # "body") =>
        /\ thread' = "top"
        /\ running' = running
        /\ IF queue = <<>>
           THEN processed' = processed /\ queue' = queue
           ELSE processed' = Append(processed, Head(queue)) /\ queue' = Tail(queue)

C26_QueueOrder == [](C26_InPutOrder) /\ [][C26_Step]_vars

\* an event was processed after the processing of an earlier one had raised
C26_Witness ==
    \E i, j \in 1..Len(processed) :
        /\ i < j
        /\ processed[i].kind = "raising"
        /\ processed[j].kind = "dict"
        /\ activity_count > 0
        /\ thread # "exited"

(***************************************************************************)
(* MetaCognitiveAnalyzer.track_insight_patterns of                         *)
(* core/analysis/metacognitive_analyzer.py.  Depths are in hundredths.     *)
(***************************************************************************)
understanding_threshold == 75

\* the domains, in the order the dicts hold them
Domains == <<"python", "machine_learning">>

\* the depths a domain's dict holds
Depths == {0, 25, 60, 90, 100}

\* understanding[domain]: {} or {'depth': d}
DomainDicts == {EmptyDict} \cup {[depth |-> v] : v \in Depths}

\* the states: with no key 'understanding', or with one that maps some of the
\* domains to their dicts
States ==
    {EmptyDict} \cup
    {[understanding |-> u] :
        u \in UNION {[S -> DomainDicts] : S \in SUBSET {Domains[i] : i \in 1..Len(Domains)}}}

\* state.get('understanding', {})
Understanding(state) == Get(state, "understanding", EmptyDict)

\* calculate_depth_change: max(0.0, current_depth - initial_depth)
calculate_depth_change(initial, current) ==
    Max(0, Get(current, "depth", 0) - Get(initial, "depth", 0))

\* the insights of one domain of current: the body of the for loop
DomainInsights(initial, current, domain) ==
    IF domain \notin DOMAIN Understanding(initial)
    THEN <<[domain |-> domain, type |-> "new_domain", magnitude |-> 100]>>
    ELSE LET depth_change == calculate_depth_change(Understanding(initial)[domain],
                                                    Understanding(current)[domain])
         IN IF depth_change > understanding_threshold
            THEN <<[domain |-> domain, type |-> "depth_increase",
                    magnitude |-> depth_change]>>
            ELSE <<>>

\* track_insight_patterns: the loop over the domains of current, from the
\* i-th on
RECURSIVE track_insight_patterns(_, _, _)
track_insight_patterns(initial, current, i) ==
    IF i > Len(Domains) THEN <<>>
    ELSE (IF Domains[i] \in DOMAIN Understanding(current)
          THEN DomainInsights(initial, current, Domains[i])
          ELSE <<>>) \o track_insight_patterns(initial, current, i + 1)

TrackInsightPatterns ==
    /\ call.fn = "none"
    /\ call' = [fn |-> "track_insight_patterns", exc |-> "none",
                ret |-> track_insight_patterns(given.initial, given.current, 1)]
    /\ UNCHANGED <<cognitive_metrics, now>>
    /\ AnalysisFrame

InitInsight ==
    /\ limits = Hooks
    /\ Construct
    /\ WorkersIdle
    /\ given \in [initial : States, current : States]
    /\ call = NoCall
    /\ cognitive_metrics = NewCognitiveMetrics
    /\ patterns = [scale \in TimeScale |-> <<>>]
    /\ resonances = <<>>
    /\ resonance_history = <<>>

NextInsight == TrackInsightPatterns

SpecInsight == InitInsight /\ [][NextInsight]_vars

Insights(domain, type) ==
    Cardinality({i \in 1..Len(call.ret) :
                    call.ret[i].domain = domain /\ call.ret[i].type = type})

\* C22 as stated: one 'new_domain' insight for every domain of current that
\* initial lacks, one 'depth_increase' insight for every domain of both whose
\* depth is greater in current.
C22_InsightPerChange ==
    call.fn = "track_insight_patterns" =>
        \A d \in DOMAIN Understanding(given.current) :
            IF d \notin DOMAIN Understanding(given.initial)
            THEN Insights(d, "new_domain") = 1
            ELSE Get(Understanding(given.current)[d], "depth", 0)
                    > Get(Understanding(given.initial)[d], "depth", 0)
                 => Insights(d, "depth_increase") = 1

(***************************************************************************)
(* _flush_events on the monitor thread, statement by statement, while the  *)
(* hook thread runs _log_event: the two share self.events and no lock.     *)
(* list.copy(), the writes and list.clear() are separate steps of the      *)
(* monitor thread; a _log_event call is one step of the hook thread.       *)
(***************************************************************************)
\* a session long enough for the timed flush, with keys typed during it
Racing ==
    [events |-> MaxEvents, partial |-> 0, threads |-> 1,
     time |-> TimedMaxTime, via |-> {"keyboard"}, direct |-> {}, faulty |-> FALSE,
     crash |-> FALSE, skew |-> FALSE]

\* _monitor_loop line 198 on a non-empty buffer: the timed flush is due
FlushDue == is_running /\ now - last_flush_time > FLUSH_INTERVAL /\ events # <<>>

FlusherFrame ==
    UNCHANGED <<now, crashed, analysis, running, queue, thread, activity_count,
                processed, stopped>>

\* _flush_events line 154: events_to_write = self.events.copy()
flush_copy(s, i, t) == [pc |-> "copied", tid |-> i, t |-> t, events_to_write |-> s.events]

\* _flush_events lines 157-159: the lines of the copy go to the file
flush_write(s, events_to_write) ==
    [s EXCEPT !.disk[current_session] = @ \o Lines(events_to_write)]

\* _flush_events line 160: self.events.clear()
flush_clear(s, events_to_write) == [s EXCEPT !.events = <<>>]

\* _monitor_loop lines 200-205 after the flush that began at time t0: the
\* flush time, the error counter, the sleep
monitor_resume(s, i, t0, t) ==
    [s EXCEPT !.last_flush_time = t0, !.error_count = 0,
              !.threads[i].wake = t + LOOP_SLEEP]

\* the monitor thread wakes with the flush due and copies the buffer
FlushCopy(i) ==
    /\ ~crashed
    /\ flusher.pc = "idle"
    /\ threads[i].pc = "run"
    /\ threads[i].wake <= now
    /\ FlushDue
    /\ flusher' = flush_copy(Self, i, now)
    /\ last' = [NoOp EXCEPT !.op = "flush_copy", !.pre = TRUE, !.tid = i,
                            !.prelen = Len(events)]
    /\ UNCHANGED <<prog, accepted, flushedUpTo, partial, errRun, partialFlushes,
                   loopRaised, limits>>
    /\ FlusherFrame

\* it writes the copy, or the write fails and the flush returns
FlushWrite ==
    /\ flusher.pc = "copied"
    /\ \E ok \in BOOLEAN :
        IF ok
        THEN /\ Install(flush_write(Self, flusher.events_to_write))
             /\ flusher' = [flusher EXCEPT !.pc = "written"]
             /\ last' = [NoOp EXCEPT !.op = "flush_write", !.pre = TRUE,
                                     !.tid = flusher.tid, !.flush = "ok"]
             /\ UNCHANGED <<flushedUpTo, errRun, loopRaised>>
        ELSE /\ Install(monitor_resume(Self, flusher.tid, flusher.t, now))
             /\ flusher' = NoFlusher
             /\ last' = [NoOp EXCEPT !.op = "flush_write", !.pre = TRUE,
                                     !.tid = flusher.tid, !.flush = "fail"]
             /\ errRun' = 0
             /\ UNCHANGED <<flushedUpTo, loopRaised>>
    /\ UNCHANGED <<accepted, partial, partialFlushes>>
    /\ FlusherFrame

\* it clears the buffer and goes on to its sleep
FlushClear ==
    /\ flusher.pc = "written"
    /\ Install(monitor_resume(flush_clear(Self, flusher.events_to_write),
                              flusher.tid, flusher.t, now))
    /\ flusher' = NoFlusher
    /\ flushedUpTo' = flusher.events_to_write[Len(flusher.events_to_write)].id
    /\ errRun' = 0
    /\ last' = [NoOp EXCEPT !.op = "flush_clear", !.pre = TRUE, !.tid = flusher.tid,
                            !.flush = "ok", !.prelen = Len(events)]
    /\ UNCHANGED <<accepted, partial, partialFlushes, loopRaised>>
    /\ FlusherFrame

\* a pass of the monitor loop that does not reach line 154
MonitorPass(i) ==
    /\ flusher.pc = "idle"
    /\ ~FlushDue
    /\ MonitorStep(i)

InitRace ==
    /\ limits = Racing
    /\ Construct
    /\ WorkersIdle
    /\ AnalysisIdle

NextRace ==
    \/ StartCall
    \/ HandleKeyboardEvent
    \/ \E i \in 1..Len(threads) : MonitorPass(i)
    \/ \E i \in 1..Len(threads) : FlushCopy(i)
    \/ FlushWrite
    \/ FlushClear
    \/ Tick

SpecRace == InitRace /\ [][NextRace]_vars

\* the events the step removes from the buffer
Removed == {events[i].id : i \in 1..Len(events)} \ {events'[i].id : i \in 1..Len(events')}

\* C23 as stated: a flush removes from the buffer only events that it has
\* written to the file, whatever _log_event appended between its copy and
\* its clear().
C23_Step ==
    (flusher.pc = "written" /\ flusher'.pc = "idle") =>
        Removed \subseteq {flusher.events_to_write[j].id :
                              j \in 1..Len(flusher.events_to_write)}
C23_FlushRemovesWritten == [][C23_Step]_vars

(***************************************************************************)
(* stop(), the hooks and the monitor threads of InteractionTracker.        *)
(***************************************************************************)
\* the step is a stop() of a running tracker: a call, or the monitor loop's
\* after its third error
StopRan == is_running /\ ~is_running' /\ last'.op \in {"stop", "monitor"}

\* C24: stop() on a running tracker attempts a flush: unless its write
\* fails, the buffer is empty afterwards and every event accepted and built
\* before is in a log file; if its write fails the buffer is as it was.
C24_Step ==
    StopRan =>
        /\ last'.flush # "fail" =>
              /\ events' = <<>>
              /\ \A id \in 1..Len(accepted') : ~accepted'[id].proc => OnDisk(id)'
        /\ last'.flush = "fail" => events' = events
C24_StopFlushes == [][C24_Step]_vars

\* a stop() has flushed an event whose immediate write had failed
C24_Witness ==
    /\ last.op = "stop"
    /\ last.pre
    /\ last.flush = "ok"
    /\ last.prelen > 0
    /\ events = <<>>
    /\ \E id \in 1..Len(accepted) : accepted[id].write = "fail" /\ OnDisk(id)

(***************************************************************************)
(* CognitiveInteractionTracker._log_event and _handle_window_change.       *)
(***************************************************************************)
MaxSwitches == 1

WindowTitles == {"editor", "browser"}

\* _handle_window_change(window_info) at time t
handle_window_change(s, window_title, t) ==
    IF s.last_window # window_title
    THEN LET s1 == IF s.last_window # "None"
                   THEN [s EXCEPT !.focus_duration = Append(@, RInt(t - s.last_window_time)),
                                  !.task_switches =
                                      Append(@, [from |-> s.last_window,
                                                 to |-> window_title, time |-> t])]
                   ELSE s
         IN [s1 EXCEPT !.last_window = window_title, !.last_window_time = t]
    ELSE s

\* context.update({"cognitive_load": ..., "current_task": ...})
CognitiveContext(context) ==
    DictMerge(context, [cognitive_load |-> "load", current_task |-> "None"])

\* CognitiveInteractionTracker._log_event: the window change, the extended
\* context, then _log_event of the base class
CognitiveLogEvent ==
    \E c \in DirectContexts, window_title \in WindowTitles,
       p, w \in BOOLEAN, fo \in FlushOutcomes(Len(events) + 1) :
        /\ ~crashed
        /\ is_running => ("direct" \in limits.via /\ c \in limits.direct
                            /\ Len(accepted) < limits.events)
        /\ Len(cognitive_metrics.task_switches) < MaxSwitches
        /\ p => limits.faulty
        /\ (~is_running \/ p) => w
        /\ (~is_running \/ p \/ ~w \/ Len(events) + 1 < FLUSH_THRESHOLD) => fo = <<TRUE, 0>>
        /\ cognitive_metrics' = handle_window_change(cognitive_metrics, window_title, now)
        /\ LET r == log_event(Self, "task_start", CognitiveContext(c), Len(accepted) + 1,
                              is_running /\ p, w, fo[1], fo[2])
           IN /\ Install(r.self)
              /\ accepted' =
                    IF r.accepted
                    THEN Append(accepted, [context |-> CognitiveContext(c),
                                           proc |-> r.proc, write |-> r.write])
                    ELSE accepted
              /\ NoteFlush(r, Len(accepted'))
              /\ last' = [NoOp EXCEPT !.op = "log_event", !.via = "cognitive",
                                      !.pre = is_running, !.accepted = r.accepted,
                                      !.proc = r.proc, !.write = r.write,
                                      !.flush = r.flush, !.prelen = Len(events),
                                      !.raised = r.raised,
                                      !.id = IF r.accepted THEN Len(accepted) + 1 ELSE 0,
                                      !.context = IF r.accepted THEN CognitiveContext(c)
                                                  ELSE EmptyDict]
        /\ UNCHANGED <<errRun, loopRaised, now, crashed, workers, given, call, patterns,
                       resonances, resonance_history>>

InitIdle ==
    /\ limits \in {Hooks, Direct}
    /\ Construct
    /\ WorkersIdle
    /\ AnalysisIdle

NextIdle ==
    \/ HandleKeyboardEvent
    \/ HandleMouseEvent
    \/ LogEventCall
    \/ CognitiveHandleKeyboardEvent
    \/ CognitiveLogEvent
    \/ StartCall
    \/ StopCall

SpecIdle == InitIdle /\ [][NextIdle]_vars

\* the step is a hook handler or a _log_event call, of either class
InputStep ==
    \/ last'.op \in {"handler", "log_event"}
    \/ call'.fn = "keyboard" /\ cognitive_metrics' # cognitive_metrics

\* C25: while is_running is false, a keyboard event, a mouse event and a
\* _log_event call, of InteractionTracker and of CognitiveInteractionTracker,
\* write to no file and leave the event buffer as it was.
C25_Step == (~is_running /\ InputStep) => (events' = events /\ disk' = disk)
C25_IdleLogsNothing == [][C25_Step]_vars

\* a stopped tracker whose buffer is not empty has had _log_event called
C25_Witness ==
    /\ last.op = "log_event"
    /\ last.via = "cognitive"
    /\ ~last.pre
    /\ ~is_running
    /\ events # <<>>

\* the lines of event id in the log files
LinesOf(id) ==
    Cardinality({q \in UNION {{<<f, i>> : i \in 1..Len(disk[f])} : f \in DOMAIN disk} :
                    disk[q[1]][q[2]].id = id})

\* C27: an event whose immediate write succeeded has one line in the log
\* files while it is in the buffer and two once a flush has taken it out
\* (a failed flush that had written its line aside); after a stop() whose
\* flush succeeded every such event has two.
C27_WrittenTwice ==
    \A id \in 1..Len(accepted) :
        (accepted[id].write = "ok" /\ id \notin partial) =>
            LinesOf(id) = (IF InBuffer(id) THEN 1 ELSE 2)

\* a run of two events in which every write succeeded has ended with stop()
C27_Witness ==
    /\ last.op = "stop"
    /\ last.pre
    /\ last.flush = "ok"
    /\ Len(accepted) >= 2
    /\ \A id \in 1..Len(accepted) : accepted[id].write = "ok" /\ LinesOf(id) = 2

\* the monitor threads that have not left their loop
ActiveThreads == {i \in 1..Len(threads) : threads[i].pc = "run"}

\* C28 as stated: at most one monitor-loop thread is active at any time,
\* whatever the sequence of start() and stop() calls.
C28_OneMonitorThread == Cardinality(ActiveThreads) <= 1

\* the first thread passes its loop test and goes on while the thread of a
\* later start() is alive
BothThreadsIterate ==
    /\ last.op = "monitor"
    /\ last.tid = 1
    /\ last.iter = "ok"
    /\ Cardinality(ActiveThreads) = 2

\* C29 as stated: whenever is_running is true the keyboard and mouse hooks
\* are installed, after a second start() too.
C29_HookedWhileRunning == is_running => hooked

(***************************************************************************)
(* The windows analyze_micro_patterns closes.                              *)
(***************************************************************************)
\* the events of given that come more than a minute after the event before
Gaps ==
    {i \in 2..Len(given) : given[i].timestamp - given[i - 1].timestamp > MICRO_WINDOW}

\* the k-th of them, and the first event of the k-th window
Gap(k) == CHOOSE i \in Gaps : Cardinality({j \in Gaps : j <= i}) = k
WindowStart(k) == IF k = 1 THEN 1 ELSE Gap(k - 1)

\* the timestamps of the k-th closed window
WindowStamps(k) == {given[i].timestamp : i \in WindowStart(k)..(Gap(k) - 1)}

\* C30: analyze_micro_patterns returns one pattern for each event that comes
\* more than a minute after the event before it, the pattern of the window
\* that event closes; the window open at the end of the input is not
\* returned, and an input without such an event yields the empty list.
C30_GapEmitsWindow ==
    (call.fn = "analyze_micro_patterns" /\ call.exc = "none") =>
        /\ Len(call.ret) = Cardinality(Gaps)
        /\ \A k \in 1..Len(call.ret) :
              /\ k <= Cardinality(Gaps)
              /\ call.ret[k].start_time \in WindowStamps(k)
              /\ call.ret[k].end_time \in WindowStamps(k)
              /\ \A t \in WindowStamps(k) :
                    call.ret[k].start_time <= t /\ t <= call.ret[k].end_time
        /\ Gaps = {} => call.ret = <<>>

\* a call returned the closed windows and not the window of the last event
C30_Witness ==
    /\ call.fn = "analyze_micro_patterns"
    /\ call.exc = "none"
    /\ Len(call.ret) >= 1
    /\ Len(given) > Len(call.ret) + 1
    /\ call.ret[Len(call.ret)].end_time < given[Len(given)].timestamp

====
